---- MODULE Spec2Model ----
(***************************************************************************)
(* PlaceCanvas (contracts/ProgrammableData.sol): the on-ledger pixel       *)
(* canvas.  Every external function is a function ...Call of the storage   *)
(* before the transaction, giving the storage after it, the revert reason  *)
(* or "ok", and the events emitted; the action of the same name commits   *)
(* that storage.  A reverted transaction leaves no trace in the state.     *)
(*                                                                         *)
(* Representation:                                                         *)
(*  - bytes / string values are sequences of byte values (0..255);         *)
(*  - bytes3 colours are integers 0 .. 2^24-1;                             *)
(*  - a uint256 pixel key is kept as its two 128-bit limbs <<hi, lo>>;     *)
(*  - amounts are in units of wei small enough to enumerate.               *)
(*                                                                         *)
(* The canvas page (frontend): the event sync of hooks/useCanvasSync.ts    *)
(* over a ledger of PixelPlaced logs, and one pixel placement of           *)
(* hooks/usePixelPlacement.ts and lib/pixelPlacement.ts with the           *)
(* optimistic overlay and the error handler.  An async function is one     *)
(* step up to each await and one from its answer on; a JavaScript Map is   *)
(* the sequence of its entries in insertion order; an Error is its         *)
(* message, a string.                                                      *)
(***************************************************************************)
EXTENDS Integers, Sequences, FiniteSets, TLC

(***************************************************************************)
(* Bounds of the model                                                     *)
(***************************************************************************)
\* placements accepted in one behaviour (caps totalPixelsPlaced)
MaxPlaced == 2
\* seconds of block time explored after deployment
MaxElapsed == 60

(***************************************************************************)
(* Program constants                                                       *)
(***************************************************************************)
CANVAS_SIZE == 1024
ONE_DAY == 86400
MIN_PD_LENGTH == 8
MAX_PD_LENGTH_CEILING == 8192
DEFAULT_MAX_PD_LENGTH == 1024
DEFAULT_MIN_INTERVAL == 60

ZeroAddr == "0x0"
Owner == "owner"
Alice == "alice"
Addr == {Owner, Alice}

\* type(uint256).max, the "not found" result of findSubstring
UINT256_MAX == -1

(***************************************************************************)
(* Inputs                                                                  *)
(***************************************************************************)
\* "" and two transaction ids
NoTx == << >>
TxA == <<116, 49>>
TxB == <<116, 50>>
TxIds == {NoTx, TxA, TxB}

\* coordinates offered to the entry points: two cells of the canvas whose
\* coordinates mirror each other, and one cell past each edge
Coords == {<<0, 1023>>, <<1023, 0>>, <<1024, 0>>, <<0, 1024>>}

\* colours offered to placePixel: 0x112233
Colors == {1122867}

\* msg.value offered
Values == {1, 2}

\* block time advances by these steps
TickDeltas == {59, 60}

\* {"color":"#aabbcc"}
PayloadJson ==
    <<123, 34, 99, 111, 108, 111, 114, 34, 58, 34, 35, 97, 97, 98, 98, 99, 99, 34, 125>>
\* #A1b2C9#ffffff : upper and lower case digits, and a second '#'
PayloadMixed == <<35, 65, 49, 98, 50, 67, 57, 35, 102, 102, 102, 102, 102, 102>>
\* #aabbcc : well formed but only 7 bytes
PayloadShort == <<35, 97, 97, 98, 98, 99, 99>>
\* aabbccdd : no '#'
PayloadNoHash == <<97, 97, 98, 98, 99, 99, 100, 100>>
\* xxxx#abc : fewer than 6 characters after '#'
PayloadTruncated == <<120, 120, 120, 120, 35, 97, 98, 99>>
\* x#aabbgg# : 'g' is no hex digit
PayloadNotHex == <<120, 35, 97, 97, 98, 98, 103, 103, 35>>
\* #aabbcc followed by 'x' up to one byte more than the default maximum
PayloadLong ==
    [i \in 1 .. (DEFAULT_MAX_PD_LENGTH + 1) |-> IF i <= 7 THEN PayloadShort[i] ELSE 120]

Payloads ==
    {PayloadJson, PayloadMixed, PayloadShort, PayloadLong, PayloadNoHash,
     PayloadTruncated, PayloadNotHex}

\* what the precompile at 0x100 can answer: failure, or the declared bytes
PdReads ==
    {[success |-> FALSE, data |-> << >>]}
        \cup {[success |-> TRUE, data |-> p] : p \in Payloads}

(***************************************************************************)
(* Fixed-width arithmetic                                                  *)
(***************************************************************************)
RECURSIVE Pow2(_)
Pow2(n) == IF n = 0 THEN 1 ELSE 2 * Pow2(n - 1)

\* a << n in an unsigned type of the given width
Shl(a, n, width) == (a * Pow2(n)) % Pow2(width)

RECURSIVE BitOr(_, _)
BitOr(a, b) ==
    IF a = 0 THEN b
    ELSE IF b = 0 THEN a
    ELSE (IF (a % 2 = 1) \/ (b % 2 = 1) THEN 1 ELSE 0) + 2 * BitOr(a \div 2, b \div 2)

\* keccak256 is collision free on the inputs of the model
Keccak256(data) == <<"keccak256", data>>

(***************************************************************************)
(* Pure helpers of PlaceCanvas                                             *)
(***************************************************************************)
\* byte 0 of the sequence is element 1
At(bytes, i) == bytes[i + 1]

\* sourceBytes[i .. i + |target| - 1] = targetBytes
MatchesAt(sourceBytes, targetBytes, i) ==
    \A j \in 0 .. (Len(targetBytes) - 1) : At(sourceBytes, i + j) = At(targetBytes, j)

\* first index at which target occurs in source, or type(uint256).max
findSubstring(source, target) ==
    IF Len(target) > Len(source) THEN UINT256_MAX
    ELSE LET hits == {i \in 0 .. (Len(source) - Len(target)) : MatchesAt(source, target, i)}
         IN  IF hits = {} THEN UINT256_MAX
             ELSE CHOOSE i \in hits : \A k \in hits : i <= k

Reverted == -1

\* hexCharToByte without the + 10 of the letters
hexCharToByteNoOffset(c) ==
    IF c >= 48 /\ c <= 57 THEN c - 48
    ELSE IF c >= 65 /\ c <= 70 THEN c - 65
    ELSE IF c >= 97 /\ c <= 102 THEN c - 97
    ELSE Reverted

\* value of one hex character; Reverted when the character is no hex digit
hexCharToByte(c) ==
    IF c >= 48 /\ c <= 57 THEN c - 48
    ELSE IF c >= 65 /\ c <= 70 THEN c - 65 + 10
    ELSE IF c >= 97 /\ c <= 102 THEN c - 97 + 10
    ELSE Reverted

\* (high << 4) | low in uint8
HexByte(high, low) == BitOr(Shl(high, 4, 8), low)

\* the three bytes of result, written by the loop at i = 0, 2, 4
hexStringToBytes3(hexString) ==
    IF Len(hexString) # 6
    THEN [status |-> "Invalid hex string length", color |-> 0]
    ELSE IF \E i \in 0 .. 5 : hexCharToByte(At(hexString, i)) = Reverted
    THEN [status |-> "Invalid hex character", color |-> 0]
    ELSE LET b(i) == HexByte(hexCharToByte(At(hexString, i)),
                             hexCharToByte(At(hexString, i + 1)))
             r0 == Shl(b(0), 16, 24)
             r2 == BitOr(r0, Shl(b(2), 8, 24))
             r4 == BitOr(r2, b(4))
         IN  [status |-> "ok", color |-> r4]

\* the colour of the 6 characters after the first '#'
extractColorFromData(data) ==
    LET hashIndex == findSubstring(data, <<35>>)
    IN  IF hashIndex = UINT256_MAX
        THEN [status |-> "Invalid PD color format", color |-> 0]
        ELSE IF ~(hashIndex + 7 <= Len(data))
        THEN [status |-> "Invalid PD color length", color |-> 0]
        ELSE hexStringToBytes3([i \in 1 .. 6 |-> At(data, hashIndex + 1 + (i - 1))])

\* x | y, without the shift
getPixelKeyNoShift(x, y) == <<0, BitOr(x, y)>>

\* (x << 128) | y as the limbs <<hi, lo>> of the uint256 word; the
\* coordinates of the model are below 2^31, so y has no bits in the high
\* limb and x loses none to the shift
getPixelKey(x, y) == <<x, y>>

\* the bounds check with <= in place of <
InBoundsInclusive(x, y) == x <= CANVAS_SIZE /\ y <= CANVAS_SIZE

\* require(x < CANVAS_SIZE && y < CANVAS_SIZE)
InBounds(x, y) == x < CANVAS_SIZE /\ y < CANVAS_SIZE

(***************************************************************************)
(* State                                                                   *)
(***************************************************************************)
VARIABLES
    pixels,                     \* mapping(uint256 => PixelData)
    lastPlacementAt,            \* mapping(address => uint256)
    totalPixelsPlaced,
    processedIrysData,          \* mapping(string => bool)
    irysPixelDetails,           \* mapping(string => bytes)
    irysPixelHash,              \* mapping(string => bytes32)
    pixelPrice,
    maxProgrammableReadLength,
    treasury,
    autoWithdrawThreshold,
    minPlacementInterval,
    paused,                     \* PausableUpgradeable._paused
    balance,                    \* address(this).balance
    now,                        \* block.timestamp of the next transaction
    lastPlaced                  \* history: per address, its last accepted placement

\* the canvas page (frontend/src/hooks/useCanvasSync.ts) and the ledger as
\* its reads see it
VARIABLES
    chainHead,                  \* number of the newest block
    chainLogs,                  \* the PixelPlaced logs, oldest first
    confirmedPixels,            \* useState<Pixel[]>([])
    syncedBlock,                \* useState<number | null>(null)
    currentBlock,               \* useState<number>(0)
    confirmedBlock,             \* useState<number>(0)
    snapshotStore,              \* localStorage['pixel-canvas-snapshot-v1']
    initialSync,                \* performInitialSync(): where it stands
    poll,                       \* the setInterval callback: where it stands
    mergedEvents,               \* history: the events merged since the page loaded
    remergedEvents,             \* history: those merged again after their first merge
    reloads                     \* history: page loads after the first

\* the optimistic overlay (hooks/useOptimisticCanvas.ts) and the placement
\* in progress (lib/pixelPlacement.ts, hooks/usePixelPlacement.ts)
VARIABLES
    optimisticPixels,           \* per caller of the hook: Map key -> OptimisticPixel
    pendingTransactions,        \* per caller of the hook: Map transactionId -> OptimisticPixel
    placement,                  \* handlePixelPlace / placePixelWithRecovery: where it stands
    toasts,                     \* the toasts shown since the placement started
    attempts,                   \* history: placements started, adds made
    clock,                      \* Date.now(), in ms since the page was mounted
    nextCleanup                 \* per caller of the hook: when its cleanup interval fires next

storageVars ==
    <<pixels, lastPlacementAt, totalPixelsPlaced, processedIrysData, irysPixelDetails,
      irysPixelHash, pixelPrice, maxProgrammableReadLength, treasury,
      autoWithdrawThreshold, minPlacementInterval, paused, balance>>

contractVars == <<storageVars, now, lastPlaced>>

syncVars ==
    <<chainHead, chainLogs, confirmedPixels, syncedBlock, currentBlock, confirmedBlock,
      snapshotStore, initialSync, poll, mergedEvents, remergedEvents, remergedEvents,
                   reloads>>

placeVars ==
    <<optimisticPixels, pendingTransactions, placement, toasts, attempts, clock,
      nextCleanup>>

clientVars == <<syncVars, placeVars>>

vars == <<contractVars, clientVars>>

Keys == {getPixelKey(c[1], c[2]) : c \in Coords}

\* the zero value of a PixelData slot
EmptyPixel ==
    [color |-> 0, placedBy |-> ZeroAddr, timestamp |-> 0, irysTxId |-> NoTx,
     isProgrammableData |-> FALSE]

\* the deployment time: block timestamps are far above one day
StartTime == 2 * ONE_DAY

\* the contract's storage and balance as one value
Storage ==
    [pixels |-> pixels,
     lastPlacementAt |-> lastPlacementAt,
     totalPixelsPlaced |-> totalPixelsPlaced,
     processedIrysData |-> processedIrysData,
     irysPixelDetails |-> irysPixelDetails,
     irysPixelHash |-> irysPixelHash,
     pixelPrice |-> pixelPrice,
     maxProgrammableReadLength |-> maxProgrammableReadLength,
     treasury |-> treasury,
     autoWithdrawThreshold |-> autoWithdrawThreshold,
     minPlacementInterval |-> minPlacementInterval,
     paused |-> paused,
     balance |-> balance]

\* a transaction that ran to its end: its writes and events stand
Done(st, events, sweep) ==
    [st |-> st, status |-> "ok", events |-> events, sweep |-> sweep]

\* a failed require that keeps the writes made before it
RevertKeepsWrites(pre, cur, reason) ==
    [st |-> cur, status |-> reason, events |-> << >>, sweep |-> "none"]

\* require(false, reason): the EVM discards every write of the transaction,
\* returns msg.value and emits nothing; pre is the storage before the call,
\* cur the storage the call had reached
Revert(pre, cur, reason) ==
    [st |-> pre, status |-> reason, events |-> << >>, sweep |-> "none"]

(***************************************************************************)
(* Internal functions                                                      *)
(***************************************************************************)
\* the rate-limit block with > in place of >=
rateLimitOffByOne(st, sender, t) ==
    IF st.minPlacementInterval > 0
    THEN LET last == st.lastPlacementAt[sender]
         IN  IF ~(t > last + st.minPlacementInterval)
             THEN [st |-> st, status |-> "Placement rate limited"]
             ELSE [st |-> [st EXCEPT !.lastPlacementAt[sender] = t], status |-> "ok"]
    ELSE [st |-> st, status |-> "ok"]

\* the rate-limit block of placePixel
placePixelRateLimit(st, sender, t) ==
    IF st.minPlacementInterval > 0
    THEN LET last == st.lastPlacementAt[sender]
         IN  IF ~(t >= last + st.minPlacementInterval)
             THEN [st |-> st, status |-> "Placement rate limited"]
             ELSE [st |-> [st EXCEPT !.lastPlacementAt[sender] = t], status |-> "ok"]
    ELSE [st |-> st, status |-> "ok"]

\* the rate-limit block without the write of lastPlacementAt
rateLimitNotRecorded(st, sender, t) ==
    IF st.minPlacementInterval > 0
    THEN LET last == st.lastPlacementAt[sender]
         IN  IF ~(t >= last + st.minPlacementInterval)
             THEN [st |-> st, status |-> "Placement rate limited"]
             ELSE [st |-> st, status |-> "ok"]
    ELSE [st |-> st, status |-> "ok"]

\* the rate-limit block of placePixelWithProgrammableData
pdRateLimit(st, sender, t) ==
    IF st.minPlacementInterval > 0
    THEN LET last == st.lastPlacementAt[sender]
         IN  IF ~(t >= last + st.minPlacementInterval)
             THEN [st |-> st, status |-> "Placement rate limited"]
             ELSE [st |-> [st EXCEPT !.lastPlacementAt[sender] = t], status |-> "ok"]
    ELSE [st |-> st, status |-> "ok"]

\* the sweep with require(ok) on the transfer
autoWithdrawReverting(st, t, callOk) ==
    IF st.autoWithdrawThreshold = 0
    THEN [st |-> st, status |-> "ok", events |-> << >>, sweep |-> "none"]
    ELSE IF st.balance < st.autoWithdrawThreshold
    THEN [st |-> st, status |-> "ok", events |-> << >>, sweep |-> "none"]
    ELSE IF st.treasury = ZeroAddr
    THEN [st |-> st, status |-> "ok", events |-> << >>, sweep |-> "none"]
    ELSE LET amount == st.balance
         IN  IF callOk
             THEN [st |-> [st EXCEPT !.balance = @ - amount], status |-> "ok",
                   events |-> <<[name |-> "AutoWithdraw", to |-> st.treasury,
                                 amount |-> amount, timestamp |-> t]>>,
                   sweep |-> "sent"]
             ELSE [st |-> st, status |-> "Withdraw failed", events |-> << >>,
                   sweep |-> "failed"]

\* callOk: whether treasury accepts the transfer
_autoWithdrawIfNeeded(st, t, callOk) ==
    IF st.autoWithdrawThreshold = 0
    THEN [st |-> st, status |-> "ok", events |-> << >>, sweep |-> "none"]
    ELSE IF st.balance < st.autoWithdrawThreshold
    THEN [st |-> st, status |-> "ok", events |-> << >>, sweep |-> "none"]
    ELSE IF st.treasury = ZeroAddr
    THEN [st |-> st, status |-> "ok", events |-> << >>, sweep |-> "none"]
    ELSE LET amount == st.balance
         IN  IF callOk
             THEN [st |-> [st EXCEPT !.balance = @ - amount], status |-> "ok",
                   events |-> <<[name |-> "AutoWithdraw", to |-> st.treasury,
                                 amount |-> amount, timestamp |-> t]>>,
                   sweep |-> "sent"]
             ELSE [st |-> st, status |-> "ok", events |-> << >>, sweep |-> "failed"]

\* _readPdChunkIntoStorage without the write of the processed flag
readPdChunkFlagNotSet(st, irysTxId, read) ==
    IF ~read.success
    THEN [st |-> st, status |-> "reading bytes failed"]
    ELSE IF ~(Len(read.data) >= MIN_PD_LENGTH
              /\ Len(read.data) <= st.maxProgrammableReadLength)
    THEN [st |-> st, status |-> "Invalid PD payload size"]
    ELSE [st |-> [st EXCEPT !.irysPixelDetails[irysTxId] = read.data,
                            !.irysPixelHash[irysTxId] = Keccak256(read.data)],
          status |-> "ok"]

\* read is the answer of the precompile to readBytes()
_readPdChunkIntoStorage(st, irysTxId, read) ==
    IF ~read.success
    THEN [st |-> st, status |-> "reading bytes failed"]
    ELSE IF ~(Len(read.data) >= MIN_PD_LENGTH
              /\ Len(read.data) <= st.maxProgrammableReadLength)
    THEN [st |-> st, status |-> "Invalid PD payload size"]
    ELSE [st |-> [st EXCEPT !.irysPixelDetails[irysTxId] = read.data,
                            !.irysPixelHash[irysTxId] = Keccak256(read.data),
                            !.processedIrysData[irysTxId] = TRUE],
          status |-> "ok"]

\* a modifier that lets a call through whatever the flag
whenNotPausedIgnored(st) == st.paused \in BOOLEAN

\* the whenNotPaused modifier of the two write entry points
whenNotPaused(st) == ~st.paused

PixelPlaced(x, y, color, user, t) ==
    [name |-> "PixelPlaced", x |-> x, y |-> y, color |-> color, user |-> user,
     timestamp |-> t]

(***************************************************************************)
(* The two write entry points, as functions of the storage before the      *)
(* call, the transaction (sender, arguments, value, block time t) and the  *)
(* answers of the environment                                              *)
(***************************************************************************)
placePixelCall(pre, sender, x, y, color, irysTxId, value, t, callOk) ==
    LET s0 == [pre EXCEPT !.balance = @ + value]
    IN  IF ~whenNotPaused(s0) THEN Revert(pre, s0, "EnforcedPause")
        ELSE IF ~InBounds(x, y) THEN Revert(pre, s0, "Pixel outside canvas bounds")
        ELSE IF ~(value >= s0.pixelPrice)
        THEN Revert(pre, s0, "Insufficient payment for pixel placement")
        ELSE LET rl == placePixelRateLimit(s0, sender, t)
             IN  IF rl.status # "ok" THEN Revert(pre, rl.st, rl.status)
                 ELSE LET s1 == [rl.st EXCEPT
                                    !.pixels[getPixelKey(x, y)] =
                                        [color |-> color, placedBy |-> sender,
                                         timestamp |-> t, irysTxId |-> irysTxId,
                                         isProgrammableData |-> FALSE],
                                    !.totalPixelsPlaced = @ + 1]
                          aw == _autoWithdrawIfNeeded(s1, t, callOk)
                      IN  IF aw.status # "ok" THEN Revert(pre, aw.st, aw.status)
                          ELSE Done(aw.st,
                                    <<PixelPlaced(x, y, color, sender, t)>> \o aw.events,
                                    aw.sweep)

placePixelWithProgrammableDataCall(pre, sender, x, y, irysTxId, value, t, read, callOk) ==
    LET s0 == [pre EXCEPT !.balance = @ + value]
    IN  IF ~whenNotPaused(s0) THEN Revert(pre, s0, "EnforcedPause")
        ELSE IF ~InBounds(x, y) THEN Revert(pre, s0, "Pixel outside canvas bounds")
        ELSE IF ~(value >= s0.pixelPrice)
        THEN Revert(pre, s0, "Insufficient payment for pixel placement")
        ELSE IF ~(~s0.processedIrysData[irysTxId])
        THEN Revert(pre, s0, "Irys data already processed")
        ELSE IF ~(Len(irysTxId) > 0) THEN Revert(pre, s0, "Invalid Irys txId")
        ELSE LET rl == pdRateLimit(s0, sender, t)
             IN  IF rl.status # "ok" THEN Revert(pre, rl.st, rl.status)
                 ELSE LET rd == _readPdChunkIntoStorage(rl.st, irysTxId, read)
                      IN  IF rd.status # "ok" THEN Revert(pre, rd.st, rd.status)
                          ELSE LET data == rd.st.irysPixelDetails[irysTxId]
                                   ex == extractColorFromData(data)
                               IN  IF ex.status # "ok" THEN Revert(pre, rd.st, ex.status)
                                   ELSE LET s1 == [rd.st EXCEPT
                                                !.pixels[getPixelKey(x, y)] =
                                                    [color |-> ex.color,
                                                     placedBy |-> sender,
                                                     timestamp |-> t,
                                                     irysTxId |-> irysTxId,
                                                     isProgrammableData |-> TRUE],
                                                !.totalPixelsPlaced = @ + 1]
                                            aw == _autoWithdrawIfNeeded(s1, t, callOk)
                                        IN  IF aw.status # "ok"
                                            THEN Revert(pre, aw.st, aw.status)
                                            ELSE Done(aw.st,
                                                      <<PixelPlaced(x, y, ex.color, sender, t),
                                                        [name |-> "PixelDataRead", x |-> x,
                                                         y |-> y, irysTxId |-> irysTxId,
                                                         timestamp |-> t],
                                                        [name |-> "ProgrammableDataProcessed",
                                                         irysTxId |-> irysTxId,
                                                         data |-> data, timestamp |-> t]>>
                                                          \o aw.events,
                                                      aw.sweep)

\* getPixel reading the slot of (y, x)
getPixelInSwapped(st, x, y) ==
    IF ~(x < CANVAS_SIZE /\ y < CANVAS_SIZE) THEN Reverted
    ELSE LET pixel == st.pixels[getPixelKey(y, x)]
         IN  <<pixel.color, pixel.placedBy, pixel.timestamp, pixel.irysTxId,
               pixel.isProgrammableData>>

\* getPixel(x, y) read from storage st; Reverted when the coordinates are out
\* of bounds
getPixelIn(st, x, y) ==
    IF ~(x < CANVAS_SIZE /\ y < CANVAS_SIZE) THEN Reverted
    ELSE LET pixel == st.pixels[getPixelKey(x, y)]
         IN  <<pixel.color, pixel.placedBy, pixel.timestamp, pixel.irysTxId,
               pixel.isProgrammableData>>

\* getPixel(x, y) in the current state
getPixel(x, y) == getPixelIn(Storage, x, y)

(***************************************************************************)
(* Admin functions                                                         *)
(***************************************************************************)
\* a modifier that lets every sender through
onlyOwnerAnyone(sender) == sender \in Addr

\* the onlyOwner modifier
onlyOwner(sender) == sender = Owner

Unauthorized == "OwnableUnauthorizedAccount"

setPixelPriceCall(pre, sender, newPrice, t) ==
    IF ~onlyOwner(sender) THEN Revert(pre, pre, Unauthorized)
    ELSE IF ~(newPrice > 0) THEN Revert(pre, pre, "Invalid price")
    ELSE Done([pre EXCEPT !.pixelPrice = newPrice],
              <<[name |-> "PixelPriceUpdated", newPrice |-> newPrice, timestamp |-> t]>>,
              "none")

setTreasuryCall(pre, sender, newTreasury, t) ==
    IF ~onlyOwner(sender) THEN Revert(pre, pre, Unauthorized)
    ELSE IF ~(newTreasury # ZeroAddr) THEN Revert(pre, pre, "Invalid treasury")
    ELSE Done([pre EXCEPT !.treasury = newTreasury],
              <<[name |-> "TreasuryUpdated", newTreasury |-> newTreasury, timestamp |-> t]>>,
              "none")

setAutoWithdrawThresholdCall(pre, sender, newThresholdWei, t) ==
    IF ~onlyOwner(sender) THEN Revert(pre, pre, Unauthorized)
    ELSE Done([pre EXCEPT !.autoWithdrawThreshold = newThresholdWei],
              <<[name |-> "AutoWithdrawThresholdUpdated",
                 newThreshold |-> newThresholdWei, timestamp |-> t]>>,
              "none")

setMinPlacementIntervalCall(pre, sender, secondsInterval, t) ==
    IF ~onlyOwner(sender) THEN Revert(pre, pre, Unauthorized)
    ELSE IF ~(secondsInterval <= ONE_DAY) THEN Revert(pre, pre, "Interval too large")
    ELSE Done([pre EXCEPT !.minPlacementInterval = secondsInterval],
              <<[name |-> "RateLimitUpdated", newInterval |-> secondsInterval,
                 timestamp |-> t]>>,
              "none")

setMaxProgrammableReadLengthCall(pre, sender, newLength, t) ==
    IF ~onlyOwner(sender) THEN Revert(pre, pre, Unauthorized)
    ELSE IF ~(newLength > 0 /\ newLength <= MAX_PD_LENGTH_CEILING)
    THEN Revert(pre, pre, "Invalid length")
    ELSE Done([pre EXCEPT !.maxProgrammableReadLength = newLength],
              <<[name |-> "MaxProgrammableReadLengthUpdated", newLength |-> newLength,
                 timestamp |-> t]>>,
              "none")

\* to.call{value: amount}(""), then require(ok, "Withdraw failed")
_payout(pre, st, to, amount, t, callOk) ==
    IF ~callOk THEN Revert(pre, st, "Withdraw failed")
    ELSE Done([st EXCEPT !.balance = @ - amount],
              <<[name |-> "FundsWithdrawn", to |-> to, amount |-> amount, timestamp |-> t]>>,
              "none")

withdrawCall(pre, sender, amountWei, to, t, callOk) ==
    IF ~onlyOwner(sender) THEN Revert(pre, pre, Unauthorized)
    ELSE LET recipient == IF to = ZeroAddr THEN pre.treasury ELSE to
         IN  IF ~(recipient # ZeroAddr) THEN Revert(pre, pre, "Treasury not set")
             ELSE IF ~(amountWei <= pre.balance) THEN Revert(pre, pre, "Insufficient balance")
             ELSE _payout(pre, pre, recipient, amountWei, t, callOk)

withdrawAllCall(pre, sender, to, t, callOk) ==
    IF ~onlyOwner(sender) THEN Revert(pre, pre, Unauthorized)
    ELSE LET recipient == IF to = ZeroAddr THEN pre.treasury ELSE to
         IN  IF ~(recipient # ZeroAddr) THEN Revert(pre, pre, "Treasury not set")
             ELSE _payout(pre, pre, recipient, pre.balance, t, callOk)

\* _pause() runs under whenNotPaused, _unpause() under whenPaused
pauseCall(pre, sender) ==
    IF ~onlyOwner(sender) THEN Revert(pre, pre, Unauthorized)
    ELSE IF pre.paused THEN Revert(pre, pre, "EnforcedPause")
    ELSE Done([pre EXCEPT !.paused = TRUE], <<[name |-> "Paused", account |-> sender]>>,
              "none")

unpauseCall(pre, sender) ==
    IF ~onlyOwner(sender) THEN Revert(pre, pre, Unauthorized)
    ELSE IF ~pre.paused THEN Revert(pre, pre, "ExpectedPause")
    ELSE Done([pre EXCEPT !.paused = FALSE], <<[name |-> "Unpaused", account |-> sender]>>,
              "none")

(***************************************************************************)
(* Arguments offered to the admin functions                                *)
(***************************************************************************)
Prices == {0, 1, 2}
Treasuries == {ZeroAddr, Owner, Alice}
Thresholds == {0, 4}
Intervals == {0, DEFAULT_MIN_INTERVAL, ONE_DAY + 1}
Lengths == {0, MIN_PD_LENGTH, MAX_PD_LENGTH_CEILING + 1}
Amounts == {1, 2}
Recipients == {ZeroAddr, Alice}

(***************************************************************************)
(* The canvas page: replay of the PixelPlaced logs into confirmedPixels    *)
(* (frontend/src/hooks/useCanvasSync.ts, lib/contract.ts, lib/snapshot.ts). *)
(*                                                                         *)
(* Representation:                                                         *)
(*  - a string is the sequence of its characters;                          *)
(*  - a Map is the sequence of its entries [k, v] in insertion order;      *)
(*  - localStorage holds no snapshot (<< >>) or one (<<snapshot>>).        *)
(***************************************************************************)
\* blocks with a PixelPlaced log mined in one behaviour
MaxMined == 2
\* page loads after the first
MaxReloads == 1

\* syncedBlock before the first sync: null
Null == -1
\* getConfirmationsFromEnv(): VITE_BLOCK_CONFIRMATIONS || 3
requiredConfs == 3
\* VITE_INITIAL_EVENT_FROM_BLOCK ?? '0'
initialFromBlockEnv == 0
\* the chunk size performInitialSync asks for
SYNC_CHUNK_SIZE == 2000
\* confirmedPixels in the render that created the performInitialSync the
\* mount effect calls: the initial value of the state
MountConfirmedPixels == << >>

\* the cells the users paint and the distance from one log's block to the next
SyncCoords == {<<5, 5>>, <<6, 5>>}
BlockGaps == {1, 2000}
\* chunks (counted from 0) whose eth_getLogs request fails
ChunkFailures == {{}, {0}, {1}}

HexChars ==
    <<"0", "1", "2", "3", "4", "5", "6", "7", "8", "9", "a", "b", "c", "d", "e", "f">>

\* the bytes3 colour of the n-th log as the RPC client decodes it: "0x" and
\* six hex digits; every log has a colour of its own
LogColor(n) ==
    <<"0", "x", "0", "0", "0", "0", HexChars[((n \div 16) % 16) + 1], HexChars[(n % 16) + 1]>>

Max(a, b) == IF a >= b THEN a ELSE b
Min(a, b) == IF a <= b THEN a ELSE b

\* s.replace('0x', ''): the first occurrence is removed
Replace0x(s) ==
    LET hits == {i \in 1..(Len(s) - 1) : s[i] = "0" /\ s[i + 1] = "x"}
    IN  IF hits = {} THEN s
        ELSE LET i == CHOOSE h \in hits : \A j \in hits : h <= j
             IN  SubSeq(s, 1, i - 1) \o SubSeq(s, i + 2, Len(s))

\* s.padStart(n, ch)
padStart(s, n, ch) ==
    IF Len(s) >= n THEN s ELSE [i \in 1..(n - Len(s)) |-> ch] \o s

\* performInitialSync's colour of a log
toHex(color) ==
    <<"#">> \o SubSeq(padStart(Replace0x(color), 6, "0"), 1, 6)

\* the poll callback's colour of a log: `#${color.slice(2)}`
pollColor(color) ==
    <<"#">> \o SubSeq(color, 3, Len(color))

\* the Map key `${x}_${y}`
key(x, y) == <<x, "_", y>>

MapHas(m, k) == \E i \in 1..Len(m) : m[i].k = k

MapGet(m, k) == m[CHOOSE i \in 1..Len(m) : m[i].k = k].v

\* a Map whose set() always adds an entry
MapSetAppends(m, k, v) ==
    Append(m, [k |-> k, v |-> v])

\* Map.prototype.set: a key already in the map keeps its place
MapSet(m, k, v) ==
    IF MapHas(m, k)
    THEN [i \in 1..Len(m) |-> IF m[i].k = k THEN [k |-> k, v |-> v] ELSE m[i]]
    ELSE Append(m, [k |-> k, v |-> v])

\* Array.from(map.values())
MapValues(m) == [i \in 1..Len(m) |-> m[i].v]

RECURSIVE MapOfPixels(_, _)
\* new Map(ps.map(p => [`${p.x}_${p.y}`, p])), the first n pixels of ps taken
MapOfPixels(ps, n) ==
    IF n = 0 THEN << >>
    ELSE MapSet(MapOfPixels(ps, n - 1), key(ps[n].x, ps[n].y), ps[n])

\* lib/contract.ts getCurrentBlockNumber: 0 when the read fails
getCurrentBlockNumber(head, ok) ==
    IF ok THEN head ELSE 0

\* lib/contract.ts queryPixelPlacedEvents: the logs of the blocks
\* fromBlock..toBlock, or nothing when the request fails
queryPixelPlacedEvents(logs, fromBlock, toBlock, ok) ==
    IF ok
    THEN SelectSeq(logs, LAMBDA ev : fromBlock <= ev.blockNumber /\ ev.blockNumber <= toBlock)
    ELSE << >>

RECURSIVE fetchChunksSkipping(_, _, _, _, _, _)
\* a chunk loop that resumes two blocks after the end of the last chunk
fetchChunksSkipping(logs, start, toBlock, chunkSize, n, failing) ==
    IF start > toBlock THEN << >>
    ELSE LET end == Min(start + chunkSize - 1, toBlock)
             chunk == queryPixelPlacedEvents(logs, start, end, n \notin failing)
         IN  chunk \o fetchChunksSkipping(logs, end + 2, toBlock, chunkSize, n + 1, failing)

RECURSIVE fetchChunks(_, _, _, _, _, _)
\* the while loop of fetchPixelEventsChunked, n chunks already fetched
fetchChunks(logs, start, toBlock, chunkSize, n, failing) ==
    IF start > toBlock THEN << >>
    ELSE LET end == Min(start + chunkSize - 1, toBlock)
             chunk == queryPixelPlacedEvents(logs, start, end, n \notin failing)
         IN  chunk \o fetchChunks(logs, end + 1, toBlock, chunkSize, n + 1, failing)

fetchPixelEventsChunked(logs, fromBlock, toBlock, chunkSize, failing) ==
    IF fromBlock > toBlock THEN << >>
    ELSE fetchChunks(logs, fromBlock, toBlock, chunkSize, 0, failing)

RECURSIVE latestByCoord(_, _)
\* the Map latestByCoord after the first n events of pixelEvents
latestByCoord(pixelEvents, n) ==
    IF n = 0 THEN << >>
    ELSE LET m == latestByCoord(pixelEvents, n - 1)
             ev == pixelEvents[n]
             k == key(ev.x, ev.y)
         IN  IF ~MapHas(m, k) \/ ev.blockNumber >= MapGet(m, k).blockNumber
             THEN MapSet(m, k, ev)
             ELSE m

\* the Pixel performInitialSync makes of a log
SyncedPixel(ev) ==
    [x |-> ev.x, y |-> ev.y, color |-> toHex(ev.color), owner |-> ev.user,
     timestamp |-> ev.timestamp * 1000]

\* the Pixel the poll callback makes of a log
PolledPixel(ev) ==
    [x |-> ev.x, y |-> ev.y, color |-> pollColor(ev.color), owner |-> ev.user,
     timestamp |-> ev.timestamp * 1000]

syncedPixels(pixelEvents) ==
    LET latest == MapValues(latestByCoord(pixelEvents, Len(pixelEvents)))
    IN  [i \in 1..Len(latest) |-> SyncedPixel(latest[i])]

RECURSIVE SetPixels(_, _, _)
\* for (const p of ps) map.set(`${p.x}_${p.y}`, p), the first n pixels taken
SetPixels(map, ps, n) ==
    IF n = 0 THEN map
    ELSE MapSet(SetPixels(map, ps, n - 1), key(ps[n].x, ps[n].y), ps[n])

\* the setConfirmedPixels updater of performInitialSync
mergeSyncedPixels(prev, synced) ==
    MapValues(SetPixels(MapOfPixels(prev, Len(prev)), synced, Len(synced)))

\* the setConfirmedPixels updater of the poll callback
mergePolledEvents(prev, pixelEvents) ==
    LET polled == [i \in 1..Len(pixelEvents) |-> PolledPixel(pixelEvents[i])]
    IN  MapValues(SetPixels(MapOfPixels(prev, Len(prev)), polled, Len(polled)))

\* lib/snapshot.ts loadSnapshot: the stored snapshot if it has its three fields
loadSnapshot(store) ==
    IF store = << >> THEN << >>
    ELSE IF {"blockNumber", "pixels", "fundingIrys"} \subseteq DOMAIN store[1]
         THEN store
         ELSE << >>

\* lib/snapshot.ts saveSnapshot
saveSnapshot(snapshot) == <<snapshot>>

\* the effect "save snapshot when state changes", run after a render with
\* the state cp, sb, cb; store is what localStorage held
snapshotEffect(cp, sb, cb, store) ==
    IF sb # Null /\ cb >= sb - requiredConfs
    THEN saveSnapshot([blockNumber |-> sb, pixels |-> cp, fundingIrys |-> 0])
    ELSE store

SyncInit ==
    /\ chainHead = 0
    /\ chainLogs = << >>
    /\ confirmedPixels = << >>
    /\ syncedBlock = Null
    /\ currentBlock = 0
    /\ confirmedBlock = 0
    /\ snapshotStore = << >>
    /\ initialSync = [pc |-> "height", snap |-> << >>, current |-> 0, synced |-> << >>]
    /\ poll = [pc |-> "idle", from |-> 0, current |-> 0]
    /\ mergedEvents = {}
    /\ remergedEvents = {}
    /\ reloads = 0

(***************************************************************************)
(* The canvas page: placing a pixel (lib/errorHandler.ts,                  *)
(* hooks/useOptimisticCanvas.ts, lib/pixelPlacement.ts,                    *)
(* hooks/usePixelPlacement.ts and the write functions of lib/contract.ts). *)
(*                                                                         *)
(* Representation:                                                         *)
(*  - an Error is its message, a string;                                   *)
(*  - a failure of the environment is [kind, message]: what went wrong and *)
(*    the message of the Error raised for it;                              *)
(*  - a toast is [level, text];                                            *)
(*  - an AppError is [type, retryable, counted, toasts, rollbackEvent]:    *)
(*    counted says whether retryCount is set, toasts and rollbackEvent are *)
(*    what its fallbackAction does.                                        *)
(***************************************************************************)
\* placements the user starts in one behaviour
MaxAttempts == 1
\* direct calls of addOptimisticPixel in one behaviour
MaxAdds == 2
\* firings of a cleanup interval in one behaviour
MaxCleanups == 3

\* s.includes(w)
includes(s, w) ==
    \E i \in 1..(Len(s) - Len(w) + 1) : SubSeq(s, i, i + Len(w) - 1) = w

\* `${n}` of a coordinate
DecimalDigits == <<"0", "1", "2", "3", "4", "5", "6", "7", "8", "9">>
RECURSIVE NumberToString(_)
NumberToString(n) ==
    IF n < 10 THEN DecimalDigits[n + 1]
    ELSE NumberToString(n \div 10) \o DecimalDigits[(n % 10) + 1]

Toast(level, text) == [level |-> level, text |-> text]

\* ErrorHandler.retryDelays
retryDelays == <<1000, 2000, 4000, 8000>>
\* this.retryDelays[attempt] || 8000
RetryDelay(attempt) ==
    IF attempt + 1 <= Len(retryDelays) THEN retryDelays[attempt + 1] ELSE 8000

createPixelPlacementError(x, y) ==
    [type |-> "PIXEL_PLACEMENT_ERROR", retryable |-> TRUE, counted |-> FALSE,
     toasts |-> <<Toast("error", "Pixel (" \o NumberToString(x) \o ", " \o NumberToString(y)
                                   \o ") placement failed - please retry")>>,
     rollbackEvent |-> TRUE]

createIrysError(message, operation) ==
    LET isConnectionError == \/ includes(message, "connection")
                             \/ includes(message, "network")
                             \/ includes(message, "timeout")
        isAuthError == \/ includes(message, "authentication")
                       \/ includes(message, "unauthorized")
                       \/ includes(message, "permission")
    IN  [type |-> "IRYS_ERROR", retryable |-> isConnectionError, counted |-> FALSE,
         toasts |-> <<Toast("error",
                            IF isAuthError
                            THEN "Irys authentication failed - check wallet connection"
                            ELSE IF isConnectionError
                            THEN "Irys network issue - please try again later"
                            ELSE "Irys " \o operation \o " failed - please retry")>>,
         rollbackEvent |-> FALSE]

createBlockchainError(message, operation) ==
    LET isUserRejection == \/ includes(message, "User denied")
                           \/ includes(message, "rejected")
                           \/ includes(message, "cancelled")
        isGasError == \/ includes(message, "gas")
                      \/ includes(message, "insufficient")
                      \/ includes(message, "fee")
    IN  [type |-> "BLOCKCHAIN_ERROR", retryable |-> ~isUserRejection /\ ~isGasError,
         counted |-> FALSE,
         toasts |-> <<IF isUserRejection THEN Toast("info", "Transaction was cancelled")
                      ELSE IF isGasError
                      THEN Toast("error", "Insufficient gas - check wallet balance")
                      ELSE Toast("error", "Blockchain connection issue - check wallet")>>,
         rollbackEvent |-> FALSE]

createWalletError ==
    [type |-> "WALLET_ERROR", retryable |-> FALSE, counted |-> FALSE,
     toasts |-> <<Toast("error", "Check your wallet connection and retry")>>,
     rollbackEvent |-> FALSE]

createNetworkError ==
    [type |-> "NETWORK_ERROR", retryable |-> TRUE, counted |-> FALSE,
     toasts |-> <<Toast("error", "Check your network connection and retry")>>,
     rollbackEvent |-> FALSE]

createAppError(message, operation) ==
    IF includes(message, "network") \/ includes(message, "fetch")
    THEN createNetworkError
    ELSE IF includes(message, "wallet") \/ includes(message, "ethereum")
    THEN createWalletError
    ELSE IF includes(message, "irys")
    THEN createIrysError(message, operation)
    ELSE IF includes(message, "transaction") \/ includes(message, "gas")
    THEN createBlockchainError(message, operation)
    ELSE [type |-> "UNKNOWN_ERROR", retryable |-> FALSE, counted |-> FALSE,
          toasts |-> <<Toast("error", "Unexpected error. Please refresh the page.")>>,
          rollbackEvent |-> FALSE]

\* ErrorHandler.handleError: what it shows and whether rollback-pixel is
\* dispatched.  Neither withRetry nor handlePixelPlacementError sets
\* retryCount, so the fallback action runs
handleError(error) ==
    IF error.retryable /\ error.counted
    THEN [toasts |-> <<Toast("info", "Retrying...")>>, rollbackEvent |-> FALSE]
    ELSE [toasts |-> error.toasts, rollbackEvent |-> error.rollbackEvent]

\* ErrorHandler.withRetry after its operation, invoked for the
\* (attempt + 1)-th time, has thrown an Error with this message: wait and
\* invoke again, or show the final error and throw
withRetry(message, operationName, maxRetries, attempt) ==
    IF attempt < maxRetries /\ createAppError(message, operationName).retryable
    THEN [next |-> "retry", delay |-> RetryDelay(attempt), toasts |-> << >>]
    ELSE [next |-> "throw", delay |-> 0,
          toasts |-> handleError(createAppError(message, operationName)).toasts]

\* what the write functions of lib/contract.ts throw when wagmi throws
placePixelWrite(message) == message
placePixelWithPDWrite(message) == "Programmable Data transaction failed: " \o message
placePixelWithPDWriteLegacy(message) == message

\* the two callers of useOptimisticCanvas(): the page (pages/Index) and
\* usePixelPlacement; each call of the hook has state of its own
PageHook == "page"
PlacementHook == "placement"
Hooks == {PageHook, PlacementHook}

\* the Map key `${x},${y}` of the overlay
overlayKey(x, y) == NumberToString(x) \o "," \o NumberToString(y)

\* Map.prototype.delete
MapDelete(m, k) == SelectSeq(m, LAMBDA e : e.k # k)

\* useOptimisticCanvas.addOptimisticPixel at time t; o is the state of the
\* hook, [optimisticPixels, pendingTransactions]
addOptimisticPixel(o, x, y, color, transactionId, t) ==
    LET pixel == [x |-> x, y |-> y, color |-> color, timestamp |-> t,
                  isOptimistic |-> TRUE, transactionId |-> transactionId]
    IN  [optimisticPixels |-> MapSet(o.optimisticPixels, overlayKey(x, y), pixel),
         pendingTransactions |->
             IF transactionId # ""
             THEN MapSet(o.pendingTransactions, transactionId, pixel)
             ELSE o.pendingTransactions]

\* useOptimisticCanvas.removeOptimisticPixel
removeOptimisticPixel(o, x, y, transactionId) ==
    [optimisticPixels |-> MapDelete(o.optimisticPixels, overlayKey(x, y)),
     pendingTransactions |->
         IF transactionId # ""
         THEN MapDelete(o.pendingTransactions, transactionId)
         ELSE o.pendingTransactions]

\* useOptimisticCanvas.rollbackOptimisticPixel; seen is the optimisticPixels
\* of the render that created the callback, reason "" when none is given.
\* The result is the state of the hook and the toasts shown
rollbackOptimisticPixel(o, seen, x, y, reason) ==
    IF MapHas(seen, overlayKey(x, y))
    THEN LET pixel == MapGet(seen, overlayKey(x, y))
             place == "Pixel (" \o NumberToString(x) \o ", " \o NumberToString(y) \o ")"
         IN  [o |-> [optimisticPixels |-> MapDelete(o.optimisticPixels, overlayKey(x, y)),
                     pendingTransactions |->
                         IF pixel.transactionId # ""
                         THEN MapDelete(o.pendingTransactions, pixel.transactionId)
                         ELSE o.pendingTransactions],
              toasts |-> <<Toast("error",
                                 IF reason # ""
                                 THEN place \o " placement failed: " \o reason
                                 ELSE place \o " placement failed")>>]
    ELSE [o |-> o, toasts |-> << >>]

\* useOptimisticCanvas.confirmOptimisticPixel; seen is the
\* pendingTransactions of the render that created the callback
confirmOptimisticPixel(o, seen, transactionId) ==
    IF MapHas(seen, transactionId)
    THEN LET pixel == MapGet(seen, transactionId)
         IN  [o |-> removeOptimisticPixel(o, pixel.x, pixel.y, transactionId),
              toasts |-> <<Toast("success",
                                 "Pixel placed at (" \o NumberToString(pixel.x) \o ", "
                                     \o NumberToString(pixel.y) \o ")")>>]
    ELSE [o |-> o, toasts |-> << >>]

\* expiredTime of cleanupExpiredPixels, ms
EXPIRED_TIME == 30000
\* the period of the cleanup interval, ms
CLEANUP_INTERVAL == 300000

\* useOptimisticCanvas.cleanupExpiredPixels at time t: the state of the hook
\* after it and the toasts shown
cleanupExpiredPixels(o, t) ==
    LET expired(pixel) == t - pixel.timestamp > EXPIRED_TIME
        gone == SelectSeq(o.optimisticPixels, LAMBDA e : expired(e.v))
        ids == {gone[i].v.transactionId : i \in 1..Len(gone)} \ {""}
    IN  [o |-> [optimisticPixels |-> SelectSeq(o.optimisticPixels, LAMBDA e : ~expired(e.v)),
                pendingTransactions |->
                    SelectSeq(o.pendingTransactions, LAMBDA e : e.k \notin ids)],
         toasts |-> IF Len(gone) > 0
                    THEN <<Toast("warning", NumberToString(Len(gone))
                                     \o " unconfirmed optimistic pixels expired")>>
                    ELSE << >>]

RECURSIVE SetOverlayPixels(_, _, _)
\* pixels.forEach(p => pixelMap.set(`${p.x},${p.y}`, p)), the first n taken
SetOverlayPixels(pixelMap, ps, n) ==
    IF n = 0 THEN pixelMap
    ELSE MapSet(SetOverlayPixels(pixelMap, ps, n - 1), overlayKey(ps[n].x, ps[n].y), ps[n])

\* useOptimisticCanvas.mergePixelsWithOptimistic of a hook whose
\* optimisticPixels is optimistic
mergePixelsWithOptimistic(optimistic, confirmed) ==
    LET shown == MapValues(optimistic)
    IN  MapValues(SetOverlayPixels(SetOverlayPixels(<< >>, confirmed, Len(confirmed)),
                                   shown, Len(shown)))

\* the options usePixelPlacement passes: maxRetries
PLACE_MAX_RETRIES == 3
\* the maxRetries of the access-list request
ACCESS_LIST_MAX_RETRIES == 2

\* the cells and colour the user picks
PlaceCoords == {<<5, 5>>}
PlaceColors == {"#a855f7"}
\* seconds of cooldown checkContractRateLimit reports after a failure
RateRemaining == {0, 30}

\* what can go wrong in a request or a transaction, with a message the
\* wallet, the provider or the contract gives for it
Failures ==
    {[kind |-> "UserDeclined", message |-> "User rejected the request."],
     [kind |-> "RateLimited", message |-> "Placement rate limited"],
     [kind |-> "PayloadInvalid", message |-> "Invalid PD payload size"],
     [kind |-> "NetworkOrProvider", message |-> "Failed to fetch"],
     [kind |-> "GasOrFunds", message |-> "insufficient funds for gas * price + value"],
     [kind |-> "Unknown", message |-> "Internal JSON-RPC error."]}

\* the answers of an awaited operation: done, an empty access list, a failure
Outcomes ==
    {[kind |-> "ok", message |-> ""], [kind |-> "empty", message |-> ""]} \cup Failures

NoFailure ==
    [kind |-> "none", message |-> "", pc |-> "idle", try |-> 0, maxRetries |-> 0,
     retried |-> FALSE]

\* no placement started yet.  before: the requests handlePixelPlace awaited
\* before it called placePixelWithRecovery; calls: the calls made on the
\* overlay; tiers: the tiers left, with their result
IdleAttempt ==
    [pc |-> "idle", x |-> 0, y |-> 0, color |-> "", hasRef |-> FALSE,
     irysConnected |-> FALSE, enableFallback |-> TRUE, maxRetries |-> 0,
     transactionId |-> "", try |-> 0, delay |-> 0,
     seen |-> [optimisticPixels |-> << >>, pendingTransactions |-> << >>],
     error |-> "", before |-> << >>, calls |-> << >>, tiers |-> << >>,
     lastFailure |-> NoFailure]

\* the operations placePixelWithRecovery awaits
TierPcs == {"accessList", "pd", "legacy", "simpleInner", "simple"}

operationName(pc) ==
    CASE pc = "accessList" -> "create-pd-access-list"
      [] pc = "pd" -> "place-pixel-with-pd-official"
      [] pc = "legacy" -> "place-pixel-with-pd-legacy"
      [] OTHER -> "place-pixel-simple"

\* a withRetry called with twice the maxRetries
tierMaxRetriesDoubled(pc, maxRetries) ==
    IF pc = "accessList" THEN 2 * ACCESS_LIST_MAX_RETRIES ELSE 2 * maxRetries

\* the maxRetries withRetry is called with
tierMaxRetries(pc, maxRetries) ==
    IF pc = "accessList" THEN ACCESS_LIST_MAX_RETRIES ELSE maxRetries

\* the message of the Error the operation throws for a failure
Raised(pc, message) ==
    CASE pc = "pd" -> placePixelWithPDWrite(message)
      [] pc = "legacy" -> placePixelWithPDWriteLegacy(message)
      [] pc \in {"simple", "simpleInner"} -> placePixelWrite(message)
      [] OTHER -> message

\* the tier of the spec an operation belongs to
TierOf(pc) ==
    CASE pc \in {"accessList", "pd"} -> "verified"
      [] pc = "legacy" -> "legacy"
      [] OTHER -> "standard"

successToast(pc) ==
    CASE pc = "pd" -> Toast("success", "Pixel placed with Programmable Data")
      [] pc = "legacy" -> Toast("success", "Pixel placed with Programmable Data (legacy)")
      [] OTHER -> Toast("success", "Pixel placed")

\* a rollback that always reports "Unknown error"
rollbackReasonUnknown(message) ==
    "Unknown error"

\* errorMessage of the catch of placePixelWithRecovery
rollbackReason(message) ==
    message

\* userFriendlyMessage of the catch of handlePixelPlace
userFriendlyMessage(errorMessage, remaining) ==
    IF \/ includes(errorMessage, "Placement rate limited")
       \/ includes(errorMessage, "rate limit")
       \/ includes(errorMessage, "minPlacementInterval")
    THEN IF remaining > 0
         THEN "Rate limited: " \o NumberToString(remaining) \o "s remaining"
         ELSE "Rate limited by smart contract. Please wait before placing another pixel."
    ELSE IF \/ includes(errorMessage, "insufficient funds")
            \/ includes(errorMessage, "Insufficient payment")
    THEN "Insufficient funds for pixel placement"
    ELSE IF includes(errorMessage, "User rejected") \/ includes(errorMessage, "user rejected")
    THEN "Transaction cancelled by user"
    ELSE errorMessage

\* the state of one caller of useOptimisticCanvas()
HookState(h) ==
    [optimisticPixels |-> optimisticPixels[h],
     pendingTransactions |-> pendingTransactions[h]]

\* pixels of the page: its own hook's overlay merged over the confirmed grid
pagePixels(confirmed) ==
    mergePixelsWithOptimistic(optimisticPixels[PageHook],
                              [i \in 1..Len(confirmed) |->
                                  [confirmed[i] EXCEPT
                                      !.timestamp = IF @ = 0 THEN clock ELSE @]])

\* placePixelWithRecovery and handlePixelPlace after executePixelPlacement
\* returned from the operation a.pc: confirm with the callbacks captured
\* when the placement started, and the success toasts.  ts are the toasts
\* shown so far
FinishConfirmed(a, ts) ==
    LET confirm == confirmOptimisticPixel(HookState(PlacementHook),
                                          a.seen.pendingTransactions, a.transactionId)
    IN  [attempt |-> [a EXCEPT !.pc = "confirmed", !.try = 0, !.delay = 0,
                               !.tiers = Append(@, [tier |-> TierOf(a.pc), ok |-> TRUE]),
                               !.calls = Append(@, [fn |-> "confirm",
                                                    arg |-> a.transactionId])],
         hooks |-> [h \in Hooks |-> IF h = PlacementHook THEN confirm.o ELSE HookState(h)],
         toasts |-> ts \o <<successToast(a.pc)>> \o confirm.toasts
                       \o <<Toast("success",
                                  "Pixel placed successfully! Next placement available in "
                                      \o NumberToString(DEFAULT_MIN_INTERVAL) \o "s.")>>]

\* placePixelWithRecovery and handlePixelPlace after executePixelPlacement
\* threw an Error with this message: the rollback with the callback captured
\* when the placement started, handlePixelPlacementError, whose fallback
\* dispatches rollback-pixel to the listener of every hook (a callback of
\* the last render), and the toast of handlePixelPlace
FinishFailed(a, ts, message, remaining) ==
    LET direct == rollbackOptimisticPixel(HookState(PlacementHook),
                                          a.seen.optimisticPixels, a.x, a.y,
                                          rollbackReason(message))
        handled == handleError(createPixelPlacementError(a.x, a.y))
        after(h) == IF h = PlacementHook THEN direct.o ELSE HookState(h)
        event(h) == IF handled.rollbackEvent
                    THEN rollbackOptimisticPixel(after(h), optimisticPixels[h], a.x, a.y, "")
                    ELSE [o |-> after(h), toasts |-> << >>]
    IN  [attempt |-> [a EXCEPT !.pc = "rolledBack", !.try = 0, !.delay = 0,
                               !.error = message,
                               !.tiers = Append(@, [tier |-> TierOf(a.pc), ok |-> FALSE]),
                               !.calls = Append(@, [fn |-> "rollback",
                                                    arg |-> rollbackReason(message)])
                                         \o (IF handled.rollbackEvent
                                             THEN <<[fn |-> "rollback", arg |-> ""]>>
                                             ELSE << >>)],
         hooks |-> [h \in Hooks |-> event(h).o],
         toasts |-> ts \o direct.toasts \o event(PageHook).toasts
                       \o event(PlacementHook).toasts \o handled.toasts
                       \o <<Toast("error", userFriendlyMessage(message, remaining))>>]

\* the way from the operation a.pc, whose withRetry threw an Error with this
\* message (or whose access list was empty), to the next operation or out
TierFailed(a, ts, message, remaining) ==
    LET failed == [a EXCEPT !.try = 0, !.delay = 0, !.error = message,
                            !.tiers = Append(@, [tier |-> TierOf(a.pc), ok |-> FALSE])]
        same == [h \in Hooks |-> HookState(h)]
    IN  CASE a.pc \in {"accessList", "pd"} ->
                 IF ~a.enableFallback
                 THEN FinishFailed(a, ts, "Programmable Data failed: " \o message, remaining)
                 ELSE [attempt |-> [failed EXCEPT !.pc = "legacy"], hooks |-> same,
                       toasts |-> ts]
          [] a.pc = "legacy" ->
                 IF ~a.enableFallback
                 THEN FinishFailed(a, ts, message, remaining)
                 ELSE [attempt |-> [failed EXCEPT !.pc = "simpleInner"], hooks |-> same,
                       toasts |-> ts]
          [] a.pc = "simpleInner" ->
                 IF ~a.enableFallback
                 THEN FinishFailed(a, ts, message, remaining)
                 ELSE [attempt |-> [failed EXCEPT !.pc = "simple"], hooks |-> same,
                       toasts |-> ts]
          [] OTHER -> FinishFailed(a, ts, message, remaining)

\* the Error tryProgrammableDataPlacement throws for an empty access list
EmptyAccessList ==
    "Failed to create Programmable Data Access List. Verify Irys transaction ID and network connectivity."

\* the placement from the answer of the awaited operation to the next await
Respond(a, ts, outcome, remaining) ==
    LET same == [h \in Hooks |-> HookState(h)]
        max == tierMaxRetries(a.pc, a.maxRetries)
        message == Raised(a.pc, outcome.message)
        w == withRetry(message, operationName(a.pc), max, a.try)
        noted == [a EXCEPT !.lastFailure =
                               [kind |-> outcome.kind, message |-> message, pc |-> a.pc,
                                try |-> a.try, maxRetries |-> max,
                                retried |-> w.next = "retry"]]
    IN  CASE outcome.kind = "ok" /\ a.pc = "accessList" ->
                 [attempt |-> [a EXCEPT !.pc = "pd", !.try = 0, !.delay = 0],
                  hooks |-> same, toasts |-> ts]
          [] outcome.kind = "ok" /\ a.pc # "accessList" ->
                 FinishConfirmed(a, ts)
          [] outcome.kind = "empty" ->
                 TierFailed([a EXCEPT !.lastFailure =
                                [kind |-> "EmptyAccessList", message |-> EmptyAccessList,
                                 pc |-> a.pc, try |-> a.try, maxRetries |-> max,
                                 retried |-> FALSE]],
                            ts, EmptyAccessList, remaining)
          [] OTHER ->
                 IF w.next = "retry"
                 THEN [attempt |-> [noted EXCEPT !.try = a.try + 1, !.delay = w.delay],
                       hooks |-> same, toasts |-> ts]
                 ELSE TierFailed(noted, ts \o w.toasts, message, remaining)

PlaceInit ==
    /\ optimisticPixels = [h \in Hooks |-> << >>]
    /\ pendingTransactions = [h \in Hooks |-> << >>]
    /\ placement = IdleAttempt
    /\ toasts = << >>
    /\ attempts = 0
    /\ clock = 0
    /\ nextCleanup = [h \in Hooks |-> CLEANUP_INTERVAL]

(***************************************************************************)
(* Initial state: initialize(_pixelPrice, Owner) has run and the page has  *)
(* been opened for the first time                                          *)
(***************************************************************************)
Init ==
    /\ pixels = [k \in Keys |-> EmptyPixel]
    /\ lastPlacementAt = [a \in Addr |-> 0]
    /\ totalPixelsPlaced = 0
    /\ processedIrysData = [id \in TxIds |-> FALSE]
    /\ irysPixelDetails = [id \in TxIds |-> << >>]
    /\ irysPixelHash = [id \in TxIds |-> << >>]
    /\ pixelPrice = 2
    /\ maxProgrammableReadLength = DEFAULT_MAX_PD_LENGTH
    /\ treasury = Owner
    /\ autoWithdrawThreshold = 0
    /\ minPlacementInterval = DEFAULT_MIN_INTERVAL
    /\ paused = FALSE
    /\ balance = 0
    /\ now = StartTime
    /\ lastPlaced = [a \in Addr |-> [at |-> 0, interval |-> 0, sweep |-> "none"]]
    /\ SyncInit
    /\ PlaceInit

(***************************************************************************)
(* Actions: one transaction each                                           *)
(***************************************************************************)
\* the storage after the transaction and its recorded outcome
Commit(r) ==
    /\ pixels' = r.st.pixels
    /\ lastPlacementAt' = r.st.lastPlacementAt
    /\ totalPixelsPlaced' = r.st.totalPixelsPlaced
    /\ processedIrysData' = r.st.processedIrysData
    /\ irysPixelDetails' = r.st.irysPixelDetails
    /\ irysPixelHash' = r.st.irysPixelHash
    /\ pixelPrice' = r.st.pixelPrice
    /\ maxProgrammableReadLength' = r.st.maxProgrammableReadLength
    /\ treasury' = r.st.treasury
    /\ autoWithdrawThreshold' = r.st.autoWithdrawThreshold
    /\ minPlacementInterval' = r.st.minPlacementInterval
    /\ paused' = r.st.paused
    /\ balance' = r.st.balance
    /\ now' = now
    /\ UNCHANGED clientVars

\* the history of accepted placements, per sender: the block time, the
\* minPlacementInterval in force and what became of the auto-withdrawal
Remember(sender, r) ==
    lastPlaced' =
        IF r.status = "ok"
        THEN [lastPlaced EXCEPT
                ![sender] = [at |-> now, interval |-> minPlacementInterval,
                             sweep |-> r.sweep]]
        ELSE lastPlaced

placePixel(sender, x, y, color, irysTxId, value, callOk) ==
    LET r == placePixelCall(Storage, sender, x, y, color, irysTxId, value, now, callOk)
    IN  /\ r.status = "ok" => totalPixelsPlaced < MaxPlaced
        /\ Commit(r)
        /\ Remember(sender, r)

placePixelWithProgrammableData(sender, x, y, irysTxId, value, read, callOk) ==
    LET r == placePixelWithProgrammableDataCall(Storage, sender, x, y, irysTxId, value,
                                                now, read, callOk)
    IN  /\ r.status = "ok" => totalPixelsPlaced < MaxPlaced
        /\ Commit(r)
        /\ Remember(sender, r)

setPixelPrice(sender, newPrice) ==
    /\ Commit(setPixelPriceCall(Storage, sender, newPrice, now))
    /\ UNCHANGED lastPlaced

setTreasury(sender, newTreasury) ==
    /\ Commit(setTreasuryCall(Storage, sender, newTreasury, now))
    /\ UNCHANGED lastPlaced

setAutoWithdrawThreshold(sender, newThresholdWei) ==
    /\ Commit(setAutoWithdrawThresholdCall(Storage, sender, newThresholdWei, now))
    /\ UNCHANGED lastPlaced

setMinPlacementInterval(sender, secondsInterval) ==
    /\ Commit(setMinPlacementIntervalCall(Storage, sender, secondsInterval, now))
    /\ UNCHANGED lastPlaced

setMaxProgrammableReadLength(sender, newLength) ==
    /\ Commit(setMaxProgrammableReadLengthCall(Storage, sender, newLength, now))
    /\ UNCHANGED lastPlaced

withdraw(sender, amountWei, to, callOk) ==
    /\ Commit(withdrawCall(Storage, sender, amountWei, to, now, callOk))
    /\ UNCHANGED lastPlaced

withdrawAll(sender, to, callOk) ==
    /\ Commit(withdrawAllCall(Storage, sender, to, now, callOk))
    /\ UNCHANGED lastPlaced

pause(sender) ==
    /\ Commit(pauseCall(Storage, sender))
    /\ UNCHANGED lastPlaced

unpause(sender) ==
    /\ Commit(unpauseCall(Storage, sender))
    /\ UNCHANGED lastPlaced

\* a later block: block.timestamp grows
Tick(d) ==
    /\ now + d <= StartTime + MaxElapsed
    /\ now' = now + d
    /\ UNCHANGED <<storageVars, lastPlaced, clientVars>>

(***************************************************************************)
(* Specifications.  The whole contract has too many configurations to      *)
(* enumerate at once, so each specification explores, from the same Init   *)
(* and with the same actions, the transactions of one concern:             *)
(*   Spec       the two write entry points and block time;                 *)
(*   SpecRate   the same with setMinPlacementInterval;                     *)
(*   SpecFunds  placements, the auto-withdraw settings and withdrawals;    *)
(*   SpecAdmin  every admin function, by the owner and by a stranger.      *)
(***************************************************************************)
\* While autoWithdrawThreshold = 0 no transfer is attempted, so the
\* treasury's answer is never asked: callOk is fixed.
Next ==
    \/ \E sender \in Addr, c \in Coords, color \in Colors, id \in TxIds, value \in Values :
          placePixel(sender, c[1], c[2], color, id, value, TRUE)
    \/ \E sender \in Addr, c \in Coords, id \in TxIds, value \in Values, read \in PdReads :
          placePixelWithProgrammableData(sender, c[1], c[2], id, value, read, TRUE)
    \/ \E d \in TickDeltas : Tick(d)

Spec == Init /\ [][Next]_vars

\* the precompile answers with the example payload
PdReadsOk == {[success |-> TRUE, data |-> PayloadJson]}

NextRate ==
    \/ \E sender \in Addr, c \in Coords, color \in Colors, id \in TxIds, value \in Values :
          placePixel(sender, c[1], c[2], color, id, value, TRUE)
    \/ \E sender \in Addr, c \in Coords, id \in TxIds, value \in Values, read \in PdReadsOk :
          placePixelWithProgrammableData(sender, c[1], c[2], id, value, read, TRUE)
    \/ \E sender \in Addr, iv \in Intervals : setMinPlacementInterval(sender, iv)
    \/ \E d \in TickDeltas : Tick(d)

SpecRate == Init /\ [][NextRate]_vars

NextFunds ==
    \/ \E sender \in Addr, c \in Coords, color \in Colors, value \in Values,
          callOk \in BOOLEAN :
          placePixel(sender, c[1], c[2], color, NoTx, value, callOk)
    \/ \E sender \in Addr, c \in Coords, id \in TxIds, value \in Values, read \in PdReadsOk,
          callOk \in BOOLEAN :
          placePixelWithProgrammableData(sender, c[1], c[2], id, value, read, callOk)
    \/ \E sender \in Addr, th \in Thresholds : setAutoWithdrawThreshold(sender, th)
    \/ \E sender \in Addr, newTreasury \in Treasuries : setTreasury(sender, newTreasury)
    \/ \E sender \in Addr, amount \in Amounts, to \in Recipients, callOk \in BOOLEAN :
          withdraw(sender, amount, to, callOk)
    \/ \E sender \in Addr, to \in Recipients, callOk \in BOOLEAN :
          withdrawAll(sender, to, callOk)
    \/ \E d \in TickDeltas : Tick(d)

SpecFunds == Init /\ [][NextFunds]_vars

NextAdmin ==
    \/ \E sender \in Addr, c \in Coords, color \in Colors, value \in Values :
          placePixel(sender, c[1], c[2], color, NoTx, value, TRUE)
    \/ \E sender \in Addr, newPrice \in Prices : setPixelPrice(sender, newPrice)
    \/ \E sender \in Addr, newTreasury \in Treasuries : setTreasury(sender, newTreasury)
    \/ \E sender \in Addr, th \in Thresholds : setAutoWithdrawThreshold(sender, th)
    \/ \E sender \in Addr, iv \in Intervals : setMinPlacementInterval(sender, iv)
    \/ \E sender \in Addr, len \in Lengths : setMaxProgrammableReadLength(sender, len)
    \/ \E sender \in Addr, amount \in Amounts, to \in Recipients, callOk \in BOOLEAN :
          withdraw(sender, amount, to, callOk)
    \/ \E sender \in Addr, to \in Recipients, callOk \in BOOLEAN :
          withdrawAll(sender, to, callOk)
    \/ \E sender \in Addr : pause(sender)
    \/ \E sender \in Addr : unpause(sender)

SpecAdmin == Init /\ [][NextAdmin]_vars

(***************************************************************************)
(* The canvas page: the ledger grows, and the steps of the page's tasks.   *)
(* A task that awaits a read is one step up to the await and one step from *)
(* the answer on; the other tasks run in between.  A range of blocks at or *)
(* below a height once read never changes, so the chunks of one            *)
(* fetchPixelEventsChunked are read in one step.                           *)
(***************************************************************************)
\* a placement is mined d blocks after the newest block
Mine(d, c) ==
    /\ Len(chainLogs) < MaxMined
    /\ chainHead' = chainHead + d
    /\ chainLogs' = Append(chainLogs,
                           [x |-> c[1], y |-> c[2], color |-> LogColor(Len(chainLogs) + 1),
                            user |-> Alice, timestamp |-> StartTime + chainHead + d,
                            blockNumber |-> chainHead + d])
    /\ UNCHANGED <<confirmedPixels, syncedBlock, currentBlock, confirmedBlock,
                   snapshotStore, initialSync, poll, mergedEvents, remergedEvents,
                   reloads>>
    /\ UNCHANGED <<contractVars, placeVars>>

\* the page is loaded again: fresh state, the tasks of the old page are gone,
\* and performInitialSync runs to its first await
Reload ==
    /\ reloads < MaxReloads
    /\ reloads' = reloads + 1
    /\ LET snap == loadSnapshot(snapshotStore)
           cp == IF snap # << >> THEN snap[1].pixels ELSE << >>
           sb == IF snap # << >> THEN snap[1].blockNumber ELSE Null
       IN  /\ confirmedPixels' = cp
           /\ syncedBlock' = sb
           /\ snapshotStore' = IF snap # << >>
                               THEN snapshotEffect(cp, sb, 0, snapshotStore)
                               ELSE snapshotStore
           /\ initialSync' = [pc |-> "height", snap |-> snap, current |-> 0,
                              synced |-> << >>]
    /\ currentBlock' = 0
    /\ confirmedBlock' = 0
    /\ poll' = [pc |-> "idle", from |-> 0, current |-> 0]
    /\ mergedEvents' = {}
    /\ remergedEvents' = {}
    /\ UNCHANGED <<chainHead, chainLogs>>
    /\ UNCHANGED <<contractVars, placeVars>>

\* performInitialSync from the answer of getCurrentBlockNumber to the next await
InitialSyncHeight(ok) ==
    /\ initialSync.pc = "height"
    /\ LET current == getCurrentBlockNumber(chainHead, ok)
           from == IF initialSync.snap # << >>
                   THEN initialSync.snap[1].blockNumber + 1
                   ELSE Max(0, initialFromBlockEnv)
       IN  IF from > current
           THEN /\ syncedBlock' = current
                /\ snapshotStore' = IF syncedBlock # current
                                    THEN snapshotEffect(confirmedPixels, current,
                                                        confirmedBlock, snapshotStore)
                                    ELSE snapshotStore
                /\ initialSync' = [initialSync EXCEPT !.pc = "done", !.current = current]
           ELSE /\ initialSync' = [initialSync EXCEPT !.pc = "fetch", !.current = current]
                /\ UNCHANGED <<syncedBlock, snapshotStore>>
    /\ UNCHANGED <<chainHead, chainLogs, confirmedPixels, currentBlock, confirmedBlock,
                   poll, mergedEvents, remergedEvents,
                   reloads>>
    /\ UNCHANGED <<contractVars, placeVars>>

\* performInitialSync from the answers of the chunk requests to setTimeout
InitialSyncMerge(failing) ==
    /\ initialSync.pc = "fetch"
    /\ LET current == initialSync.current
           from == IF initialSync.snap # << >>
                   THEN initialSync.snap[1].blockNumber + 1
                   ELSE Max(0, initialFromBlockEnv)
           pixelEvents == fetchPixelEventsChunked(chainLogs, from, current,
                                                  SYNC_CHUNK_SIZE, failing)
           synced == syncedPixels(pixelEvents)
           cp == mergeSyncedPixels(confirmedPixels, synced)
       IN  /\ confirmedPixels' = cp
           /\ syncedBlock' = current
           /\ snapshotStore' = snapshotEffect(cp, current, confirmedBlock, snapshotStore)
           /\ initialSync' = [initialSync EXCEPT !.pc = "save", !.synced = synced]
           /\ mergedEvents' = mergedEvents \cup {pixelEvents[i] : i \in 1..Len(pixelEvents)}
           /\ remergedEvents' = remergedEvents \cup
                  (mergedEvents \cap {pixelEvents[i] : i \in 1..Len(pixelEvents)})
    /\ UNCHANGED <<chainHead, chainLogs, currentBlock, confirmedBlock, poll, reloads>>
    /\ UNCHANGED <<contractVars, placeVars>>

\* the setTimeout callback of performInitialSync
InitialSyncSave ==
    /\ initialSync.pc = "save"
    /\ LET all == MountConfirmedPixels \o initialSync.synced
       IN  snapshotStore' =
               saveSnapshot([blockNumber |-> initialSync.current,
                             pixels |-> MapValues(MapOfPixels(all, Len(all))),
                             fundingIrys |-> 0])
    /\ initialSync' = [initialSync EXCEPT !.pc = "done"]
    /\ UNCHANGED <<chainHead, chainLogs, confirmedPixels, syncedBlock, currentBlock,
                   confirmedBlock, poll, mergedEvents, remergedEvents,
                   reloads>>
    /\ UNCHANGED <<contractVars, placeVars>>

\* the poll timer fires: the callback runs to its first await
PollStart ==
    /\ poll.pc = "idle"
    /\ poll' = [pc |-> "height",
                from |-> (IF syncedBlock = Null THEN 0 ELSE syncedBlock) + 1,
                current |-> 0]
    /\ UNCHANGED <<chainHead, chainLogs, confirmedPixels, syncedBlock, currentBlock,
                   confirmedBlock, snapshotStore, initialSync, mergedEvents, remergedEvents,
                   reloads>>
    /\ UNCHANGED <<contractVars, placeVars>>

\* the poll callback from the answer of getCurrentBlockNumber on
PollHeight(ok) ==
    /\ poll.pc = "height"
    /\ LET current == getCurrentBlockNumber(chainHead, ok)
       IN  poll' = IF poll.from <= current
                   THEN [poll EXCEPT !.pc = "fetch", !.current = current]
                   ELSE [pc |-> "idle", from |-> 0, current |-> 0]
    /\ UNCHANGED <<chainHead, chainLogs, confirmedPixels, syncedBlock, currentBlock,
                   confirmedBlock, snapshotStore, initialSync, mergedEvents, remergedEvents,
                   reloads>>
    /\ UNCHANGED <<contractVars, placeVars>>

\* the poll callback from the answer of queryPixelPlacedEvents on
PollMerge(ok) ==
    /\ poll.pc = "fetch"
    /\ LET pixelEvents == queryPixelPlacedEvents(chainLogs, poll.from, poll.current, ok)
           cp == IF Len(pixelEvents) > 0
                 THEN mergePolledEvents(confirmedPixels, pixelEvents)
                 ELSE confirmedPixels
       IN  /\ confirmedPixels' = cp
           /\ syncedBlock' = poll.current
           /\ snapshotStore' = IF Len(pixelEvents) > 0 \/ syncedBlock # poll.current
                               THEN snapshotEffect(cp, poll.current, confirmedBlock,
                                                   snapshotStore)
                               ELSE snapshotStore
           /\ mergedEvents' = mergedEvents \cup {pixelEvents[i] : i \in 1..Len(pixelEvents)}
           /\ remergedEvents' = remergedEvents \cup
                  (mergedEvents \cap {pixelEvents[i] : i \in 1..Len(pixelEvents)})
    /\ poll' = [pc |-> "idle", from |-> 0, current |-> 0]
    /\ UNCHANGED <<chainHead, chainLogs, currentBlock, confirmedBlock, initialSync,
                   reloads>>
    /\ UNCHANGED <<contractVars, placeVars>>

\* the block tracking timer, from the answer of getCurrentBlockNumber on
BlockTracking(ok) ==
    /\ LET current == getCurrentBlockNumber(chainHead, ok)
           cb == Max(0, current - requiredConfs)
       IN  /\ currentBlock' = current
           /\ confirmedBlock' = cb
           /\ snapshotStore' = IF cb # confirmedBlock
                               THEN snapshotEffect(confirmedPixels, syncedBlock, cb,
                                                   snapshotStore)
                               ELSE snapshotStore
    /\ UNCHANGED <<chainHead, chainLogs, confirmedPixels, syncedBlock, initialSync, poll,
                   mergedEvents, remergedEvents,
                   reloads>>
    /\ UNCHANGED <<contractVars, placeVars>>

\*   SpecSync   one page load against a growing ledger: the initial sync
\*              and the poll timer, with reads that may fail
NextSync ==
    \/ \E d \in BlockGaps, c \in SyncCoords : Mine(d, c)
    \/ \E ok \in BOOLEAN : InitialSyncHeight(ok)
    \/ \E failing \in ChunkFailures : InitialSyncMerge(failing)
    \/ InitialSyncSave
    \/ PollStart
    \/ \E ok \in BOOLEAN : PollHeight(ok)
    \/ \E ok \in BOOLEAN : PollMerge(ok)

SpecSync == Init /\ [][NextSync]_vars

\*   SpecReplay the initial sync alone, every read answered
NextReplay ==
    \/ \E d \in BlockGaps, c \in SyncCoords : Mine(d, c)
    \/ InitialSyncHeight(TRUE)
    \/ InitialSyncMerge({})
    \/ InitialSyncSave

SpecReplay == Init /\ [][NextReplay]_vars

\*   SpecPage   the same with page reloads and the block tracking timer,
\*              every read answered
NextPage ==
    \/ \E d \in BlockGaps, c \in SyncCoords : Mine(d, c)
    \/ Reload
    \/ InitialSyncHeight(TRUE)
    \/ InitialSyncMerge({})
    \/ InitialSyncSave
    \/ PollStart
    \/ PollHeight(TRUE)
    \/ PollMerge(TRUE)
    \/ BlockTracking(TRUE)

SpecPage == Init /\ [][NextPage]_vars

(***************************************************************************)
(* The canvas page: the steps of one placement.  handlePixelPlace runs     *)
(* from the click to the first operation placePixelWithRecovery awaits,    *)
(* then from each answer to the next await.                                *)
(***************************************************************************)
\* the user clicks a cell: the checks of handlePixelPlace pass, the pixel
\* data is uploaded if the off-chain client is connected and the pixel has
\* no data reference, and placePixelWithRecovery runs to its first await
BeginPlacement(x, y, color, givenRef, irysConnected, uploadOk, enableFallback) ==
    /\ placement.pc \in {"idle", "confirmed", "rolledBack"}
    /\ attempts < MaxAttempts
    /\ attempts' = attempts + 1
    /\ LET hasRef == givenRef \/ (irysConnected /\ uploadOk)
           transactionId == "opt_" \o NumberToString(attempts + 1)
           uploaded == IF irysConnected /\ ~givenRef
                       THEN IF uploadOk
                            THEN <<Toast("success", "Pixel data uploaded to Irys")>>
                            ELSE <<Toast("warning",
                                         "Irys upload failed, proceeding with standard placement")>>
                       ELSE << >>
           added == addOptimisticPixel(HookState(PlacementHook), x, y, color,
                                       transactionId, clock)
       IN  /\ optimisticPixels' = [optimisticPixels EXCEPT
                                      ![PlacementHook] = added.optimisticPixels]
           /\ pendingTransactions' = [pendingTransactions EXCEPT
                                         ![PlacementHook] = added.pendingTransactions]
           /\ toasts' = uploaded \o
                        <<Toast("info", "Placing pixel (" \o NumberToString(x) \o ", "
                                            \o NumberToString(y) \o ")...")>>
           /\ placement' = [IdleAttempt EXCEPT
                             !.pc = IF irysConnected /\ hasRef THEN "accessList" ELSE "simple",
                             !.x = x, !.y = y, !.color = color, !.hasRef = hasRef,
                             !.irysConnected = irysConnected,
                             !.enableFallback = enableFallback,
                             !.maxRetries = PLACE_MAX_RETRIES,
                             !.transactionId = transactionId,
                             !.seen = HookState(PlacementHook),
                             !.before = <<"checkContractRateLimit",
                                          "estimatePixelPlaceFeeEth">>
                                        \o (IF irysConnected /\ ~givenRef
                                            THEN <<"uploadPixelData">> ELSE << >>),
                             !.calls = <<[fn |-> "add", arg |-> transactionId]>>]
    /\ UNCHANGED <<clock, nextCleanup>>
    /\ UNCHANGED <<contractVars, syncVars>>

\* the awaited operation answers
OperationAnswers(outcome, remaining) ==
    /\ placement.pc \in TierPcs
    /\ outcome.kind = "empty" => placement.pc = "accessList"
    /\ LET r == Respond(placement, toasts, outcome, remaining)
       IN  /\ placement' = r.attempt
           /\ optimisticPixels' = [h \in Hooks |-> r.hooks[h].optimisticPixels]
           /\ pendingTransactions' = [h \in Hooks |-> r.hooks[h].pendingTransactions]
           /\ toasts' = r.toasts
    /\ UNCHANGED <<attempts, clock, nextCleanup>>
    /\ UNCHANGED <<contractVars, syncVars>>

\*   SpecPlace  placements started by the user, one after the other
NextPlace ==
    \/ \E c \in PlaceCoords, color \in PlaceColors, givenRef \in BOOLEAN,
          irysConnected \in BOOLEAN, uploadOk \in BOOLEAN, enableFallback \in BOOLEAN :
          BeginPlacement(c[1], c[2], color, givenRef, irysConnected, uploadOk,
                         enableFallback)
    \/ \E outcome \in Outcomes, remaining \in RateRemaining :
          OperationAnswers(outcome, remaining)

SpecPlace == Init /\ [][NextPlace]_vars

(***************************************************************************)
(* The optimistic overlay on its own: a component calls the callbacks of   *)
(* useOptimisticCanvas that its latest render got, time passes, and the    *)
(* cleanup interval of each caller fires every CLEANUP_INTERVAL.           *)
(***************************************************************************)
\* the cells of the direct calls and the reasons given to a rollback
OverlayCoords == {<<5, 5>>, <<6, 5>>}
RollbackReasons == {"", "Placement rate limited"}
\* the transaction ids of the adds
ClientTxIds == {"opt_" \o NumberToString(n) : n \in 1..(MaxAdds + 1)}

\* the end of the time explored: the last firing of the intervals
Horizon == MaxCleanups * CLEANUP_INTERVAL

\* the firing of a cleanup interval that comes next
NextFiring == Min(nextCleanup[PageHook], nextCleanup[PlacementHook])

\* the instants time passes to: the two around the age EXPIRED_TIME at
\* the next firing, and the firing
Instants == {NextFiring - EXPIRED_TIME - 1, NextFiring - EXPIRED_TIME, NextFiring}

\* addOptimisticPixel(x, y, color, transactionId) with a new transaction id
OverlayAdd(h, x, y, color) ==
    /\ attempts < MaxAdds
    /\ nextCleanup[h] + CLEANUP_INTERVAL <= Horizon
    /\ attempts' = attempts + 1
    /\ LET added == addOptimisticPixel(HookState(h), x, y, color,
                                       "opt_" \o NumberToString(attempts + 1), clock)
       IN  /\ optimisticPixels' = [optimisticPixels EXCEPT ![h] = added.optimisticPixels]
           /\ pendingTransactions' = [pendingTransactions EXCEPT
                                         ![h] = added.pendingTransactions]
    /\ toasts' = << >>
    /\ UNCHANGED <<placement, clock, nextCleanup>>
    /\ UNCHANGED <<contractVars, syncVars>>

\* confirmOptimisticPixel(transactionId)
OverlayConfirm(h, transactionId) ==
    /\ LET r == confirmOptimisticPixel(HookState(h), pendingTransactions[h], transactionId)
       IN  /\ optimisticPixels' = [optimisticPixels EXCEPT ![h] = r.o.optimisticPixels]
           /\ pendingTransactions' = [pendingTransactions EXCEPT
                                         ![h] = r.o.pendingTransactions]
           /\ toasts' = r.toasts
    /\ UNCHANGED <<placement, attempts, clock, nextCleanup>>
    /\ UNCHANGED <<contractVars, syncVars>>

\* rollbackOptimisticPixel(x, y, reason)
OverlayRollback(h, x, y, reason) ==
    /\ LET r == rollbackOptimisticPixel(HookState(h), optimisticPixels[h], x, y, reason)
       IN  /\ optimisticPixels' = [optimisticPixels EXCEPT ![h] = r.o.optimisticPixels]
           /\ pendingTransactions' = [pendingTransactions EXCEPT
                                         ![h] = r.o.pendingTransactions]
           /\ toasts' = r.toasts
    /\ UNCHANGED <<placement, attempts, clock, nextCleanup>>
    /\ UNCHANGED <<contractVars, syncVars>>

\* time passes until the instant t, at most until the next firing
Elapse(t) ==
    /\ NextFiring <= Horizon
    /\ clock < t
    /\ clock' = t
    /\ UNCHANGED <<optimisticPixels, pendingTransactions, placement, toasts, attempts,
                   nextCleanup>>
    /\ UNCHANGED <<contractVars, syncVars>>

\* the cleanup interval of a caller of the hook fires
CleanupTimer(h) ==
    /\ nextCleanup[h] <= Horizon
    /\ clock = nextCleanup[h]
    /\ nextCleanup' = [nextCleanup EXCEPT ![h] = @ + CLEANUP_INTERVAL]
    /\ LET r == cleanupExpiredPixels(HookState(h), clock)
       IN  /\ optimisticPixels' = [optimisticPixels EXCEPT ![h] = r.o.optimisticPixels]
           /\ pendingTransactions' = [pendingTransactions EXCEPT
                                         ![h] = r.o.pendingTransactions]
           /\ toasts' = r.toasts
    /\ UNCHANGED <<placement, attempts, clock>>
    /\ UNCHANGED <<contractVars, syncVars>>

TimePasses == \E t \in Instants : Elapse(t)

\*   SpecOverlay direct calls on the overlay, with time and the cleanup
\*               intervals
NextOverlay ==
    \/ \E h \in Hooks, c \in OverlayCoords, color \in PlaceColors :
          OverlayAdd(h, c[1], c[2], color)
    \/ \E h \in Hooks, transactionId \in ClientTxIds : OverlayConfirm(h, transactionId)
    \/ \E h \in Hooks, c \in OverlayCoords, reason \in RollbackReasons :
          OverlayRollback(h, c[1], c[2], reason)
    \/ TimePasses
    \/ \E h \in Hooks : CleanupTimer(h)

SpecOverlay == Init /\ [][NextOverlay]_vars

\*   SpecExpiry  the same, where time does not stop before the end of the
\*               time explored and an interval that is due fires
SpecExpiry ==
    /\ SpecOverlay
    /\ WF_vars(TimePasses)
    /\ \A h \in Hooks : WF_vars(CleanupTimer(h))

(***************************************************************************)
(* A placement and the ledger together: the write functions of             *)
(* lib/contract.ts simulate the call on the storage of the moment, send    *)
(* the transaction through the wallet and wait for its receipt.  A         *)
(* transaction that was sent is mined whatever becomes of the wait.        *)
(***************************************************************************)
\* the cell and the account of the user, the data reference of an upload
\* and the reference placePixelWrite gives without one, 'ui'
LedgerCoords == {<<0, 1023>>}
UiTx == <<117, 105>>

\* hexToBytes3 of lib/contract.ts, the bytes3 as an integer
HexLower == "0123456789abcdef"
HexUpper == "0123456789ABCDEF"
hexDigit(c) ==
    CHOOSE d \in 0..15 : SubSeq(HexLower, d + 1, d + 1) = c \/ SubSeq(HexUpper, d + 1, d + 1) = c
hexToBytes3(hex) ==
    LET at == IF includes(hex, "#")
              THEN CHOOSE i \in 1..Len(hex) :
                       /\ SubSeq(hex, i, i) = "#"
                       /\ \A j \in 1..(i - 1) : SubSeq(hex, j, j) # "#"
              ELSE 0
        h == IF at = 0 THEN hex ELSE SubSeq(hex, 1, at - 1) \o SubSeq(hex, at + 1, Len(hex))
        slice(a, b) == SubSeq(h, a + 1, Min(b, Len(h)))
        byte(part) == CASE Len(part) = 0 -> 0
                        [] Len(part) = 1 -> hexDigit(part)
                        [] OTHER -> 16 * hexDigit(SubSeq(part, 1, 1))
                                        + hexDigit(SubSeq(part, 2, 2))
    IN  65536 * byte(slice(0, 2)) + 256 * byte(slice(2, 4)) + byte(slice(4, 6))

\* the transaction the write function of the tier a.pc simulates and sends,
\* run on the storage of the moment; the value sent is the price read from
\* the contract.  The ABI has no placePixelWithProgrammableDataLegacy.
TierTransaction(a) ==
    CASE a.pc = "pd" ->
             placePixelWithProgrammableDataCall(Storage, Alice, a.x, a.y, TxA, pixelPrice,
                                                now, [success |-> TRUE, data |-> PayloadJson],
                                                TRUE)
      [] a.pc \in {"simple", "simpleInner"} ->
             placePixelCall(Storage, Alice, a.x, a.y, hexToBytes3(a.color),
                            IF a.hasRef THEN TxA ELSE UiTx, pixelPrice, now, TRUE)
      [] OTHER -> Revert(Storage, Storage, "Function not found on ABI")

\* the storage after a mined transaction
Mined(st) ==
    /\ pixels' = st.pixels
    /\ lastPlacementAt' = st.lastPlacementAt
    /\ totalPixelsPlaced' = st.totalPixelsPlaced
    /\ processedIrysData' = st.processedIrysData
    /\ irysPixelDetails' = st.irysPixelDetails
    /\ irysPixelHash' = st.irysPixelHash
    /\ balance' = st.balance
    /\ UNCHANGED <<pixelPrice, maxProgrammableReadLength, treasury, autoWithdrawThreshold,
                   minPlacementInterval, paused, now, lastPlaced>>

\* the placement goes on from the answer of the operation it awaits
Continue(outcome, remaining) ==
    LET r == Respond(placement, toasts, outcome, remaining)
    IN  /\ placement' = r.attempt
        /\ optimisticPixels' = [h \in Hooks |-> r.hooks[h].optimisticPixels]
        /\ pendingTransactions' = [h \in Hooks |-> r.hooks[h].pendingTransactions]
        /\ toasts' = r.toasts
        /\ UNCHANGED <<attempts, clock, nextCleanup>>
        /\ UNCHANGED syncVars

\* the write function of the tier throws before a transaction is sent: the
\* simulation reverts with the contract's reason, or the request fails
WriteNotSent(failure, remaining) ==
    /\ placement.pc \in TierPcs \ {"accessList"}
    /\ LET tx == TierTransaction(placement)
       IN  Continue(IF tx.status # "ok"
                    THEN [kind |-> "Reverted", message |-> tx.status]
                    ELSE failure,
                    remaining)
    /\ UNCHANGED contractVars

\* the transaction is sent and mined; the wait for the receipt returns it
\* (failure "ok") or fails
WriteSent(answer, remaining) ==
    /\ placement.pc \in TierPcs \ {"accessList"}
    /\ totalPixelsPlaced < MaxPlaced
    /\ LET tx == TierTransaction(placement)
       IN  /\ tx.status = "ok"
           /\ Mined(tx.st)
    /\ Continue(answer, remaining)

\* the access-list request answers
AccessListAnswers(outcome, remaining) ==
    /\ placement.pc = "accessList"
    /\ OperationAnswers(outcome, remaining)

\* the failures explored before a transaction is sent: one withRetry gives
\* up on and one it retries
SendFailures == {f \in Failures : f.kind \in {"UserDeclined", "NetworkOrProvider"}}
\* the failure explored for the wait: the provider does not answer
WaitFailures == {f \in Failures : f.kind = "NetworkOrProvider"}
Receipt == [kind |-> "ok", message |-> ""]

\*   SpecLedger  placements by one account on the contract, block time and
\*               the owner's setMinPlacementInterval
NextLedger ==
    \/ \E c \in LedgerCoords, color \in PlaceColors, irysConnected \in BOOLEAN,
          enableFallback \in BOOLEAN :
          BeginPlacement(c[1], c[2], color, FALSE, irysConnected, TRUE, enableFallback)
    \/ \E outcome \in {Receipt} \cup SendFailures : AccessListAnswers(outcome, 0)
    \/ \E failure \in SendFailures : WriteNotSent(failure, 0)
    \/ \E answer \in {Receipt} \cup WaitFailures : WriteSent(answer, 0)
    \/ \E iv \in Intervals : setMinPlacementInterval(Owner, iv)
    \/ \E d \in TickDeltas : Tick(d)

SpecLedger == Init /\ [][NextLedger]_vars

\* the answers explored where every operation answers in the end: the
\* receipt, the empty access list, a failure withRetry gives up on and one
\* it retries
LiveOutcomes == {Receipt, [kind |-> "empty", message |-> ""]} \cup SendFailures

PlacementGoesOn == \E outcome \in LiveOutcomes : OperationAnswers(outcome, 0)

\*   SpecPlaceLive  placements one after the other, where an awaited
\*                  operation or backoff delay answers in the end
NextPlaceLive ==
    \/ \E c \in PlaceCoords, color \in PlaceColors, givenRef \in BOOLEAN,
          irysConnected \in BOOLEAN, uploadOk \in BOOLEAN, enableFallback \in BOOLEAN :
          BeginPlacement(c[1], c[2], color, givenRef, irysConnected, uploadOk,
                         enableFallback)
    \/ PlacementGoesOn

SpecPlaceLive == Init /\ [][NextPlaceLive]_vars /\ WF_vars(PlacementGoesOn)

(***************************************************************************)
(* Properties                                                              *)
(***************************************************************************)
\* a coordinate pair of the canvas: 0 <= x, y < 1024
OnCanvas(c) == c[1] >= 0 /\ c[1] < CANVAS_SIZE /\ c[2] >= 0 /\ c[2] < CANVAS_SIZE

\* the outcome of placePixel sent now
TryPlacePixel(sender, c, color, id, value, callOk) ==
    placePixelCall(Storage, sender, c[1], c[2], color, id, value, now, callOk)

\* the outcome of placePixelWithProgrammableData sent now
TryPlaceVerified(sender, c, id, value, read, callOk) ==
    placePixelWithProgrammableDataCall(Storage, sender, c[1], c[2], id, value, now, read,
                                       callOk)

Read(c) == getPixel(c[1], c[2])

----------------------------------------------------------------------------
\* C1, first half: a placement accepted at a canvas coordinate (x, y) makes
\* getPixel(x, y) return the colour placed (the colour of the PixelPlaced
\* event), the caller, the block time, the dataRef and the flag: FALSE for
\* placePixel, TRUE for placePixelWithProgrammableData.
C1_PlaceThenRead ==
    /\ \A sender \in Addr, c \in Coords, color \in Colors, id \in TxIds, value \in Values :
          LET r == TryPlacePixel(sender, c, color, id, value, TRUE)
          IN  (OnCanvas(c) /\ r.status = "ok")
                  => /\ getPixelIn(r.st, c[1], c[2]) = <<color, sender, now, id, FALSE>>
                     /\ r.events[1] = PixelPlaced(c[1], c[2], color, sender, now)
    /\ \A sender \in Addr, c \in Coords, id \in TxIds, value \in Values, read \in PdReads :
          LET r == TryPlaceVerified(sender, c, id, value, read, TRUE)
          IN  (OnCanvas(c) /\ r.status = "ok")
                  => /\ r.events[1].name = "PixelPlaced"
                     /\ getPixelIn(r.st, c[1], c[2])
                            = <<r.events[1].color, sender, now, id, TRUE>>

\* C1, second half: what getPixel(x, y) returns changes only in a transaction
\* that is an accepted placement at (x, y): the counter grows by one, the
\* record carries this block's time, and no other coordinate changes.
C1_KeepsUntilReplaced ==
    \A c \in Coords :
        (OnCanvas(c) /\ Read(c)' # Read(c))
            => /\ totalPixelsPlaced' = totalPixelsPlaced + 1
               /\ Read(c)'[3] = now
               /\ \A d \in Coords : (OnCanvas(d) /\ d # c) => Read(d)' = Read(d)

\* C1: for every valid coordinate, an accepted placement at (x, y) makes
\* getPixel(x, y) return the colour, placer, timestamp, dataRef and
\* verification flag of that placement, and getPixel(x, y) keeps returning
\* them until the next accepted placement at (x, y).
C1_ReadBack == []C1_PlaceThenRead /\ [][C1_KeepsUntilReplaced]_vars

\* one cell written by placePixel at an earlier block time and still read
\* back, the other written through the verified-data entry point
C1_Witness ==
    \E c \in Coords, d \in Coords :
        /\ OnCanvas(c) /\ OnCanvas(d)
        /\ Read(c)[2] \in Addr /\ Read(c)[5] = FALSE /\ Read(c)[3] < now
        /\ Read(d)[2] \in Addr /\ Read(d)[5] = TRUE /\ Read(d)[3] = now

----------------------------------------------------------------------------
\* the checks that come before the rate limit in placePixel all pass
PassesEarlierChecks(c, value) == ~paused /\ OnCanvas(c) /\ value >= pixelPrice

\* the same for placePixelWithProgrammableData
PassesEarlierChecksVerified(c, id, value) ==
    PassesEarlierChecks(c, value) /\ ~processedIrysData[id] /\ id # NoTx

HexDigits == (48 .. 57) \cup (65 .. 70) \cup (97 .. 102)

\* index (from 1) of the first '#' of a payload that has one
FirstHash(p) == CHOOSE i \in 1 .. Len(p) : p[i] = 35 /\ \A j \in 1 .. (i - 1) : p[j] # 35

\* the ways a payload is refused: below 8 bytes, above the configured
\* maximum, no '#', fewer than 6 characters after the first '#', a character
\* among them that is no hex digit
BadPayload(p) ==
    \/ Len(p) < 8
    \/ Len(p) > maxProgrammableReadLength
    \/ \A i \in 1 .. Len(p) : p[i] # 35
    \/ Len(p) - FirstHash(p) < 6
    \/ \E i \in 1 .. 6 : p[FirstHash(p) + i] \notin HexDigits

\* address a was last accepted under a 60 second interval, which is in force
PlacedUnder60(a) ==
    lastPlaced[a].at > 0 /\ lastPlaced[a].interval = 60 /\ minPlacementInterval = 60

\* C2 as stated: with minPlacementInterval = 60, after an accepted placement
\* of an address at t0 every attempt of that address before t0 + 60 is
\* rejected with the rate-limit error, and every otherwise valid attempt at or
\* after t0 + 60 is accepted.
C2_Original ==
    \A a \in Addr :
        PlacedUnder60(a) =>
            /\ \A c \in Coords, color \in Colors, id \in TxIds, value \in Values :
                  LET r == TryPlacePixel(a, c, color, id, value, TRUE)
                  IN  /\ now < lastPlaced[a].at + 60 => r.status = "Placement rate limited"
                      /\ (now >= lastPlaced[a].at + 60 /\ PassesEarlierChecks(c, value))
                             => r.status = "ok"
            /\ \A c \in Coords, id \in TxIds, value \in Values, read \in PdReads :
                  LET r == TryPlaceVerified(a, c, id, value, read, TRUE)
                  IN  /\ now < lastPlaced[a].at + 60 => r.status = "Placement rate limited"
                      /\ (/\ now >= lastPlaced[a].at + 60
                          /\ PassesEarlierChecksVerified(c, id, value)
                          /\ read.success /\ ~BadPayload(read.data))
                             => r.status = "ok"

\* C2, amended: with minPlacementInterval = 60, after an accepted placement
\* of an address at t0 every attempt of that address before t0 + 60 is
\* rejected, by the rate-limit error unless an earlier check of the entry
\* point (pause, bounds, payment, dataRef) rejects it first, and every
\* otherwise valid attempt at or after t0 + 60 is accepted.
C2_RateLimit60 ==
    \A a \in Addr :
        PlacedUnder60(a) =>
            /\ \A c \in Coords, color \in Colors, id \in TxIds, value \in Values :
                  LET r == TryPlacePixel(a, c, color, id, value, TRUE)
                  IN  /\ now < lastPlaced[a].at + 60 =>
                             /\ r.status # "ok"
                             /\ PassesEarlierChecks(c, value)
                                    => r.status = "Placement rate limited"
                      /\ (now >= lastPlaced[a].at + 60 /\ PassesEarlierChecks(c, value))
                             => r.status = "ok"
            /\ \A c \in Coords, id \in TxIds, value \in Values, read \in PdReads :
                  LET r == TryPlaceVerified(a, c, id, value, read, TRUE)
                  IN  /\ now < lastPlaced[a].at + 60 =>
                             /\ r.status # "ok"
                             /\ PassesEarlierChecksVerified(c, id, value)
                                    => r.status = "Placement rate limited"
                      /\ (/\ now >= lastPlaced[a].at + 60
                          /\ PassesEarlierChecksVerified(c, id, value)
                          /\ read.success /\ ~BadPayload(read.data))
                             => r.status = "ok"

\* an address accepted at t0 and accepted again at exactly t0 + 60
C2_Witness ==
    \E a \in Addr, c \in Coords, d \in Coords :
        /\ OnCanvas(c) /\ OnCanvas(d) /\ PlacedUnder60(a)
        /\ Read(c)[2] = a /\ Read(d)[2] = a
        /\ Read(d)[3] = Read(c)[3] + 60
        /\ lastPlaced[a].at = Read(d)[3] /\ lastPlacementAt[a] = Read(d)[3]

----------------------------------------------------------------------------
\* address a was last accepted under the positive interval now in force, and
\* that interval has not elapsed
InsideInterval(a) ==
    /\ lastPlaced[a].at > 0
    /\ lastPlaced[a].interval > 0
    /\ lastPlaced[a].interval = minPlacementInterval
    /\ now < lastPlaced[a].at + minPlacementInterval

\* C3: the rate limit is shared by the two entry points: after a placement
\* of an address accepted through either of them, both reject that address
\* until minPlacementInterval has elapsed, with the rate-limit error when no
\* earlier check rejects first.
C3_SharedRateLimit ==
    \A a \in Addr :
        InsideInterval(a) =>
            /\ \A c \in Coords, color \in Colors, id \in TxIds, value \in Values :
                  LET r == TryPlacePixel(a, c, color, id, value, TRUE)
                  IN  /\ r.status # "ok"
                      /\ PassesEarlierChecks(c, value) => r.status = "Placement rate limited"
            /\ \A c \in Coords, id \in TxIds, value \in Values, read \in PdReads :
                  LET r == TryPlaceVerified(a, c, id, value, read, TRUE)
                  IN  /\ r.status # "ok"
                      /\ PassesEarlierChecksVerified(c, id, value)
                             => r.status = "Placement rate limited"

\* an address whose last placement went through the verified-data entry
\* point 59 seconds ago, while a placePixel call of it would pass every
\* earlier check
C3_Witness ==
    \E a \in Addr, c \in Coords, d \in Coords :
        /\ InsideInterval(a) /\ now = lastPlaced[a].at + 59
        /\ OnCanvas(c) /\ Read(c)[2] = a /\ Read(c)[3] = lastPlaced[a].at /\ Read(c)[5] = TRUE
        /\ PassesEarlierChecks(d, pixelPrice)

----------------------------------------------------------------------------
\* the four pieces of state C4 names are in storage st as they are now
PlacementStateKept(st) ==
    /\ st.pixels = pixels
    /\ st.lastPlacementAt = lastPlacementAt
    /\ st.totalPixelsPlaced = totalPixelsPlaced
    /\ st.processedIrysData = processedIrysData

BoundsOrPayment == {"Pixel outside canvas bounds", "Insufficient payment for pixel placement"}

\* C4: a placement through either entry point with x >= 1024 or y >= 1024 or
\* a payment below pixelPrice is rejected, for that reason, and the pixel
\* grid, lastPlacementAt of every address, the total-placed counter and the
\* processed flags are as before the call.
C4_RejectedUnchanged ==
    \A a \in Addr, c \in Coords, id \in TxIds, value \in Values, callOk \in BOOLEAN :
        (~paused /\ (c[1] >= 1024 \/ c[2] >= 1024 \/ value < pixelPrice)) =>
            /\ \A color \in Colors :
                  LET r == TryPlacePixel(a, c, color, id, value, callOk)
                  IN  r.status \in BoundsOrPayment /\ PlacementStateKept(r.st)
            /\ \A read \in PdReads :
                  LET r == TryPlaceVerified(a, c, id, value, read, callOk)
                  IN  r.status \in BoundsOrPayment /\ PlacementStateKept(r.st)

\* a state with placements and a processed dataRef in which an address free
\* of the rate limit is refused for its coordinates, and for its payment
C4_Witness ==
    \E a \in Addr, c \in Coords, d \in Coords, id \in TxIds :
        /\ totalPixelsPlaced > 0 /\ processedIrysData[id]
        /\ lastPlacementAt[a] > 0 /\ now >= lastPlacementAt[a] + minPlacementInterval
        /\ c[1] >= 1024 /\ OnCanvas(d)
        /\ TryPlacePixel(a, c, 1122867, NoTx, pixelPrice, TRUE).status
               = "Pixel outside canvas bounds"
        /\ TryPlacePixel(a, d, 1122867, NoTx, pixelPrice - 1, TRUE).status
               = "Insufficient payment for pixel placement"

----------------------------------------------------------------------------
\* the coordinates of the canvas whose record is a verified placement of id
VerifiedCells(id) == {c \in Coords : OnCanvas(c) /\ Read(c)[5] = TRUE /\ Read(c)[4] = id}

\* a verified-data call with an id whose flag is set is rejected; an accepted
\* one finds the flag clear, sets it and touches no other flag
C5_Replay ==
    /\ \A a \in Addr, c \in Coords, id \in TxIds, value \in Values, read \in PdReads :
          LET r == TryPlaceVerified(a, c, id, value, read, TRUE)
          IN  /\ processedIrysData[id] => r.status # "ok"
              /\ (PassesEarlierChecks(c, value) /\ processedIrysData[id])
                     => r.status = "Irys data already processed"
              /\ r.status = "ok" =>
                     /\ ~processedIrysData[id]
                     /\ r.st.processedIrysData = [processedIrysData EXCEPT ![id] = TRUE]
    /\ \A id \in TxIds :
          /\ Cardinality(VerifiedCells(id)) <= 1
          /\ VerifiedCells(id) # {} => processedIrysData[id]

\* no step clears a flag, and placePixel sets none
C5_NeverCleared ==
    \A id \in TxIds :
        /\ processedIrysData[id] => processedIrysData'[id]
        /\ (~processedIrysData[id] /\ processedIrysData'[id]) =>
               /\ totalPixelsPlaced' = totalPixelsPlaced + 1
               /\ \E c \in Coords : OnCanvas(c) /\ Read(c)' # Read(c) /\ Read(c)'[4] = id
                                    /\ Read(c)'[5] = TRUE

\* C5: for every dataRef the processed flag is set at most once and never
\* cleared: only an accepted placePixelWithProgrammableData call with that
\* dataRef sets it, such a call is accepted only while the flag is clear, and
\* every later verified-data placement with the same dataRef is rejected.
C5_ProcessedOnce == []C5_Replay /\ [][C5_NeverCleared]_vars

\* a dataRef used by one address, and the other address, free of the rate
\* limit and with a good payload, refused for reusing it
C5_Witness ==
    \E a \in Addr, b \in Addr, c \in Coords, d \in Coords, id \in TxIds :
        /\ a # b /\ processedIrysData[id] /\ VerifiedCells(id) = {c} /\ Read(c)[2] = a
        /\ lastPlacementAt[b] = 0 /\ OnCanvas(d) /\ d # c
        /\ TryPlaceVerified(b, d, id, pixelPrice,
                            [success |-> TRUE, data |-> PayloadJson], TRUE).status
               = "Irys data already processed"

----------------------------------------------------------------------------
PayloadErrors ==
    {"Invalid PD payload size", "Invalid PD color format", "Invalid PD color length",
     "Invalid hex character"}

\* C6: a verified-data placement whose payload is below 8 bytes or above
\* maxProgrammableReadLength, has no '#', has fewer than 6 characters after
\* the first '#' or a non-hex character among them is rejected, for its
\* payload when every earlier check passes, and processed[dataRef], the
\* stored bytes and hash, the pixel grid, the caller's lastPlacementAt and the
\* total-placed counter are as before the call.
C6_BadPayloadUnchanged ==
    \A a \in Addr, c \in Coords, id \in TxIds, value \in Values, read \in PdReads :
        (read.success /\ BadPayload(read.data)) =>
            LET r == TryPlaceVerified(a, c, id, value, read, TRUE)
            IN  /\ r.status # "ok"
                /\ (/\ PassesEarlierChecksVerified(c, id, value)
                    /\ now >= lastPlacementAt[a] + minPlacementInterval)
                       => r.status \in PayloadErrors
                /\ r.st.processedIrysData[id] = processedIrysData[id]
                /\ r.st.irysPixelDetails[id] = irysPixelDetails[id]
                /\ r.st.irysPixelHash[id] = irysPixelHash[id]
                /\ r.st.pixels = pixels
                /\ r.st.lastPlacementAt[a] = lastPlacementAt[a]
                /\ r.st.totalPixelsPlaced = totalPixelsPlaced

\* an address that has placed before and is past its interval, refused once
\* for each of the payload errors
C6_Witness ==
    \E a \in Addr, c \in Coords, id \in TxIds :
        /\ lastPlacementAt[a] > 0 /\ totalPixelsPlaced > 0
        /\ PassesEarlierChecksVerified(c, id, pixelPrice)
        /\ \A e \in PayloadErrors :
              \E p \in Payloads :
                  /\ BadPayload(p)
                  /\ TryPlaceVerified(a, c, id, pixelPrice,
                                      [success |-> TRUE, data |-> p], TRUE).status = e

----------------------------------------------------------------------------
\* the value of one hex digit, either case
DigitValue(ch) == IF ch <= 57 THEN ch - 48 ELSE IF ch <= 70 THEN ch - 55 ELSE ch - 87

\* the number written by the 6 characters after the first '#' of p
ColorAfterFirstHash(p) ==
    LET d(i) == DigitValue(p[FirstHash(p) + i])
    IN  d(1) * 1048576 + d(2) * 65536 + d(3) * 4096 + d(4) * 256 + d(5) * 16 + d(6)

\* C7: an accepted verified-data placement stores the 3-byte value of the 6
\* hex characters, of either case, after the first '#' of the payload, with
\* the verification flag true, and announces that colour; the payload
\* {"color":"#aabbcc"} gives 0xaabbcc.
C7_ColorFromPayload ==
    /\ extractColorFromData(PayloadJson) = [status |-> "ok", color |-> 11189196]
    /\ \A a \in Addr, c \in Coords, id \in TxIds, value \in Values, read \in PdReads :
          LET r == TryPlaceVerified(a, c, id, value, read, TRUE)
          IN  r.status = "ok" =>
                  /\ ~BadPayload(read.data)
                  /\ getPixelIn(r.st, c[1], c[2])[1] = ColorAfterFirstHash(read.data)
                  /\ getPixelIn(r.st, c[1], c[2])[5] = TRUE
                  /\ r.events[1].color = ColorAfterFirstHash(read.data)

\* two verified records on the canvas: 0xaabbcc from a lower-case payload and
\* 0xA1B2C9 from a payload of mixed case with a second '#'
C7_Witness ==
    \E c \in Coords, d \in Coords :
        /\ OnCanvas(c) /\ OnCanvas(d)
        /\ Read(c)[5] = TRUE /\ Read(c)[1] = 11189196
        /\ Read(d)[5] = TRUE /\ Read(d)[1] = 10597065

----------------------------------------------------------------------------
\* C8: an accepted placement by address A changes the record of one
\* coordinate, A's own lastPlacementAt and the total-placed counter: the
\* record of every other coordinate and lastPlacementAt of every other
\* address are unchanged, and a placePixel call of another address B that was
\* acceptable before the placement is acceptable right after it.
C8_FrameEffect ==
    totalPixelsPlaced' = totalPixelsPlaced + 1 =>
        \E a \in Addr, c \in Coords :
            /\ OnCanvas(c) /\ Read(c)'[2] = a /\ Read(c)'[3] = now
            /\ \A d \in Coords : (OnCanvas(d) /\ d # c) => Read(d)' = Read(d)
            /\ lastPlacementAt'[a] = now
            /\ \A b \in Addr \ {a} :
                  /\ lastPlacementAt'[b] = lastPlacementAt[b]
                  /\ \A d \in Coords, value \in Values :
                        TryPlacePixel(b, d, 1122867, NoTx, value, TRUE).status = "ok"
                            => TryPlacePixel(b, d, 1122867, NoTx, value, TRUE)'.status = "ok"

C8_OnlyOwnRecord == [][C8_FrameEffect]_vars

\* both addresses have placed in the same second, each on its own coordinate
C8_Witness ==
    \E c \in Coords, d \in Coords :
        /\ OnCanvas(c) /\ OnCanvas(d) /\ c # d
        /\ Read(c)[2] = Owner /\ Read(d)[2] = Alice
        /\ Read(c)[3] = now /\ Read(d)[3] = now
        /\ lastPlacementAt[Owner] = now /\ lastPlacementAt[Alice] = now

----------------------------------------------------------------------------
\* the AutoWithdraw events among the events of a transaction
AutoWithdrawEvents(events) ==
    {i \in 1 .. Len(events) : events[i].name = "AutoWithdraw"}

\* what C9 asks of one placement, whose outcome is ok when the treasury takes
\* the transfer and ko when it refuses it
SweepOutcome(ok, ko, a, c, value) ==
    /\ ko.status = ok.status
    /\ ok.status = "ok" =>
          /\ getPixelIn(ko.st, c[1], c[2])[2] = a
          /\ getPixelIn(ko.st, c[1], c[2])[3] = now
          /\ ko.st.totalPixelsPlaced = totalPixelsPlaced + 1
          /\ ko.events[1].name = "PixelPlaced" /\ ko.events[1].user = a
          /\ ko.st.balance = balance + value
          /\ AutoWithdrawEvents(ko.events) = {}
          /\ ko.st.pixels = ok.st.pixels
          /\ IF autoWithdrawThreshold > 0 /\ balance + value >= autoWithdrawThreshold
             THEN /\ ok.sweep = "sent" /\ ko.sweep = "failed"
                  /\ ok.st.balance = 0
                  /\ ok.events[Len(ok.events)] =
                         [name |-> "AutoWithdraw", to |-> treasury,
                          amount |-> balance + value, timestamp |-> now]
             ELSE /\ ok.sweep = "none" /\ ko.sweep = "none"
                  /\ ok.st.balance = balance + value
                  /\ AutoWithdrawEvents(ok.events) = {}

\* C9: a failed auto-withdrawal never reverts a placement: with
\* autoWithdrawThreshold > 0 and the balance at or above it the contract tries
\* to send its whole balance to the treasury; if the transfer fails the
\* placement is accepted all the same, with the pixel written, the counter
\* incremented, PixelPlaced emitted and the balance kept; with the threshold
\* at 0 no transfer is attempted.
C9_SweepNeverReverts ==
    /\ treasury # ZeroAddr
    /\ \A a \in Addr, c \in Coords, id \in TxIds, value \in Values :
          /\ \A color \in Colors :
                SweepOutcome(TryPlacePixel(a, c, color, id, value, TRUE),
                             TryPlacePixel(a, c, color, id, value, FALSE), a, c, value)
          /\ \A read \in PdReadsOk :
                SweepOutcome(TryPlaceVerified(a, c, id, value, read, TRUE),
                             TryPlaceVerified(a, c, id, value, read, FALSE), a, c, value)

\* an accepted placement whose transfer to the treasury failed: its record is
\* on the canvas and the balance, at or above the threshold, is in the
\* contract
C9_Witness ==
    \E a \in Addr, c \in Coords :
        /\ lastPlaced[a].sweep = "failed" /\ lastPlaced[a].at = now
        /\ OnCanvas(c) /\ Read(c)[2] = a /\ Read(c)[3] = now
        /\ autoWithdrawThreshold > 0 /\ balance >= autoWithdrawThreshold

----------------------------------------------------------------------------
\* the settings and the balance C10 names, in storage st
AdminState(st) ==
    <<st.pixelPrice, st.treasury, st.autoWithdrawThreshold, st.minPlacementInterval,
      st.maxProgrammableReadLength, st.paused, st.balance>>

\* the outcome r of an admin call of a stranger
Refused(r) ==
    /\ r.status = Unauthorized
    /\ AdminState(r.st) = AdminState(Storage)
    /\ r.st = Storage
    /\ r.events = << >>

\* C10: a call of any admin function by an address that is not the owner is
\* rejected, and price, treasury, threshold, interval, maximum payload
\* length, paused flag and balance are as before the call.
C10_NonOwnerRejected ==
    \A sender \in Addr \ {Owner} :
        /\ \A newPrice \in Prices : Refused(setPixelPriceCall(Storage, sender, newPrice, now))
        /\ \A t \in Treasuries : Refused(setTreasuryCall(Storage, sender, t, now))
        /\ \A th \in Thresholds :
              Refused(setAutoWithdrawThresholdCall(Storage, sender, th, now))
        /\ \A iv \in Intervals : Refused(setMinPlacementIntervalCall(Storage, sender, iv, now))
        /\ \A len \in Lengths :
              Refused(setMaxProgrammableReadLengthCall(Storage, sender, len, now))
        /\ Refused(pauseCall(Storage, sender))
        /\ Refused(unpauseCall(Storage, sender))
        /\ \A amount \in Amounts, to \in Recipients, callOk \in BOOLEAN :
              Refused(withdrawCall(Storage, sender, amount, to, now, callOk))
        /\ \A to \in Recipients, callOk \in BOOLEAN :
              Refused(withdrawAllCall(Storage, sender, to, now, callOk))

\* the contract holds funds and its owner has changed the price: a stranger
\* is refused the withdrawal and the price change that the owner is granted
C10_Witness ==
    /\ balance > 0 /\ pixelPrice = 1
    /\ withdrawAllCall(Storage, Alice, Alice, now, TRUE).status = Unauthorized
    /\ withdrawAllCall(Storage, Owner, Alice, now, TRUE).status = "ok"
    /\ setPixelPriceCall(Storage, Alice, 2, now).status = Unauthorized
    /\ setPixelPriceCall(Storage, Owner, 2, now).status = "ok"

----------------------------------------------------------------------------
\* while paused, every call of either entry point reverts with EnforcedPause
\* and returns the storage it found
C11_PausedRejects ==
    paused =>
        \A a \in Addr, c \in Coords, id \in TxIds, value \in Values :
            /\ \A color \in Colors :
                  LET r == TryPlacePixel(a, c, color, id, value, TRUE)
                  IN  r.status = "EnforcedPause" /\ r.st = Storage
            /\ \A read \in PdReads :
                  LET r == TryPlaceVerified(a, c, id, value, read, TRUE)
                  IN  r.status = "EnforcedPause" /\ r.st = Storage

\* a placePixel call of a that passes the usual checks in the current state
UsualChecksPass(a, c, value) ==
    /\ OnCanvas(c) /\ value >= pixelPrice
    /\ minPlacementInterval > 0 => now >= lastPlacementAt[a] + minPlacementInterval

\* while not paused, a call of either entry point that passes the usual
\* checks is accepted
C11_UnpausedAccepts ==
    ~paused =>
        \A a \in Addr, c \in Coords, value \in Values :
            UsualChecksPass(a, c, value) =>
                /\ \A color \in Colors, id \in TxIds :
                      TryPlacePixel(a, c, color, id, value, TRUE).status = "ok"
                /\ \A id \in TxIds, read \in PdReads :
                      (/\ id # NoTx /\ ~processedIrysData[id]
                       /\ read.success /\ ~BadPayload(read.data))
                          => TryPlaceVerified(a, c, id, value, read, TRUE).status = "ok"

\* no step taken while paused changes a pixel, a rate-limit entry or the
\* counter, and the step that lifts the pause changes nothing but the flag
C11_PausedFrame ==
    paused =>
        /\ pixels' = pixels
        /\ lastPlacementAt' = lastPlacementAt
        /\ totalPixelsPlaced' = totalPixelsPlaced
        /\ ~paused' => Storage' = [Storage EXCEPT !.paused = FALSE]

\* C11: while the contract is paused no placement through either write entry
\* point is accepted and no pixel, rate-limit entry or counter changes; after
\* unpause a placement that passes the usual checks is accepted again.
C11_Pause == [](C11_PausedRejects /\ C11_UnpausedAccepts) /\ [][C11_PausedFrame]_vars

\* a paused contract that has taken placements before, refusing a call that
\* passes the usual checks
C11_Witness ==
    \E a \in Addr, c \in Coords :
        /\ paused /\ totalPixelsPlaced > 0 /\ balance > 0
        /\ UsualChecksPass(a, c, pixelPrice)
        /\ TryPlacePixel(a, c, 1122867, NoTx, pixelPrice, TRUE).status = "EnforcedPause"

(***************************************************************************)
(* The canvas page: replay                                                 *)
(***************************************************************************)
\* the blocks at which a range of the ledger may start, be split or end:
\* the first block, every block with a log and the newest block
LogBlocks == {0, chainHead} \cup {chainLogs[i].blockNumber : i \in 1..Len(chainLogs)}

\* a split point just before or at a block with a log
SplitBlocks == LogBlocks \cup {b - 1 : b \in LogBlocks \ {0}}

\* chunk sizes below, at and above the one performInitialSync asks for
ChunkSizes == {1000, SYNC_CHUNK_SIZE, 2001}

\* every log of the blocks a..b in one request
OneChunk(a, b) == queryPixelPlacedEvents(chainLogs, a, b, TRUE)

\* the grid after the logs of a..b, fetched in chunks of the given size,
\* are merged into prev by the initial sync
Replayed(prev, a, b, chunkSize) ==
    mergeSyncedPixels(prev, syncedPixels(fetchPixelEventsChunked(chainLogs, a, b,
                                                                 chunkSize, {})))

\* C12: replay is transparent to chunking.  For every range [A,C] of the
\* ledger, every chunk size and every split point B, merging the logs of
\* [A,C] fetched in one chunk gives the same confirmedPixels as merging them
\* fetched in chunks of that size, and as merging those of [A,B] and then
\* those of [B+1,C].
C12_ChunkingTransparent ==
    \A a \in LogBlocks, c \in LogBlocks :
        a <= c =>
            LET whole == mergeSyncedPixels(confirmedPixels, syncedPixels(OneChunk(a, c)))
            IN  \A chunkSize \in ChunkSizes :
                    /\ Replayed(confirmedPixels, a, c, chunkSize) = whole
                    /\ \A b \in SplitBlocks :
                           (a <= b /\ b < c) =>
                               Replayed(Replayed(confirmedPixels, a, b, chunkSize),
                                        b + 1, c, chunkSize) = whole

\* the initial sync has merged a range that took several chunks and holds
\* two logs of one cell, one in the first chunk and one in a later chunk
C12_Witness ==
    /\ initialSync.pc = "save"
    /\ initialSync.current >= SYNC_CHUNK_SIZE
    /\ \E e1 \in mergedEvents, e2 \in mergedEvents :
           /\ e1.x = e2.x /\ e1.y = e2.y
           /\ e1.blockNumber < SYNC_CHUNK_SIZE /\ e2.blockNumber >= SYNC_CHUNK_SIZE
           /\ \E i \in 1..Len(confirmedPixels) :
                  /\ confirmedPixels[i].x = e2.x /\ confirmedPixels[i].y = e2.y
                  /\ confirmedPixels[i].color = toHex(e2.color)

\* the entries of confirmedPixels for the cell (x, y)
ConfirmedAt(x, y) ==
    {confirmedPixels[i] : i \in {j \in 1..Len(confirmedPixels) :
                                    confirmedPixels[j].x = x /\ confirmedPixels[j].y = y}}

\* C13: for any two placement events of one cell that have both been merged,
\* by the initial sync or by a poll cycle, confirmedPixels holds for that
\* cell the colour of the event with the higher blockNumber.
C13_HigherBlockWins ==
    \A e1 \in mergedEvents, e2 \in mergedEvents :
        (/\ e1.x = e2.x /\ e1.y = e2.y
         /\ e1.blockNumber < e2.blockNumber
         /\ \A e3 \in mergedEvents :
                (e3.x = e2.x /\ e3.y = e2.y) => e3.blockNumber <= e2.blockNumber)
        => \A p \in ConfirmedAt(e2.x, e2.y) : p.color = toHex(e2.color)

\* C14: merging is idempotent.  For every range of the ledger, merging its
\* events into confirmedPixels a second time, by the updater of the initial
\* sync or by the updater of the poll cycle, leaves the confirmedPixels that
\* merging them once leaves.
C14_MergeIdempotent ==
    \A a \in LogBlocks, c \in LogBlocks :
        a <= c =>
            LET pixelEvents == OneChunk(a, c)
                synced == syncedPixels(pixelEvents)
                once == mergeSyncedPixels(confirmedPixels, synced)
                polled == mergePolledEvents(confirmedPixels, pixelEvents)
            IN  /\ mergeSyncedPixels(once, synced) = once
                /\ mergePolledEvents(polled, pixelEvents) = polled
                /\ mergePolledEvents(once, pixelEvents) = once
                /\ mergeSyncedPixels(polled, synced) = polled

\* the poll cycle has merged a range the initial sync had merged before,
\* with two events of one cell in it, and the grid is the one the initial
\* sync left
C14_Witness ==
    /\ initialSync.pc = "done"
    /\ poll.pc = "idle"
    /\ syncedBlock = initialSync.current
    /\ \E e1 \in remergedEvents, e2 \in remergedEvents :
           e1.x = e2.x /\ e1.y = e2.y /\ e1.blockNumber < e2.blockNumber
    /\ remergedEvents = mergedEvents
    /\ confirmedPixels = mergeSyncedPixels(<< >>, syncedPixels(OneChunk(0, syncedBlock)))

\* the logs of the cell (x, y) in the blocks from the replay start block to b
LogsUpTo(x, y, b) ==
    {chainLogs[i] : i \in {j \in 1..Len(chainLogs) :
                              /\ chainLogs[j].x = x /\ chainLogs[j].y = y
                              /\ Max(0, initialFromBlockEnv) <= chainLogs[j].blockNumber
                              /\ chainLogs[j].blockNumber <= b}}

\* C15: syncedBlock is the last block fully merged.  In every state, for
\* every cell with a placement event in a block from the replay start block
\* to syncedBlock, confirmedPixels holds that cell with the colour of its
\* latest event at or below syncedBlock.
C15_SyncedBlockFullyMerged ==
    syncedBlock # Null =>
        \A c \in SyncCoords :
            \A ev \in LogsUpTo(c[1], c[2], syncedBlock) :
                (\A other \in LogsUpTo(c[1], c[2], syncedBlock) :
                     other.blockNumber <= ev.blockNumber)
                => /\ ConfirmedAt(c[1], c[2]) # {}
                   /\ \A p \in ConfirmedAt(c[1], c[2]) : p.color = toHex(ev.color)

\* confirmed grids under the overlay: empty, and one holding a pixel at the
\* cell the user picks
OverlaidGrids ==
    {<< >>,
     <<[x |-> 5, y |-> 5, color |-> "#000001", owner |-> Alice, timestamp |-> 1000]>>}

\* C16: while a placement is in progress (after add) the canvas shown holds
\* the optimistic pixel at its cell, over any confirmed pixel there; after
\* confirm no overlay holds a pixel at the cell; after rollback no overlay
\* holds one and an error toast carrying the reason was shown.
C16_OverlayLifecycle ==
    LET k == overlayKey(placement.x, placement.y)
        inOverlay == \E h \in Hooks : MapHas(optimisticPixels[h], k)
        shown(confirmed) ==
            \E i \in 1..Len(pagePixels(confirmed)) :
                /\ pagePixels(confirmed)[i].x = placement.x
                /\ pagePixels(confirmed)[i].y = placement.y
                /\ pagePixels(confirmed)[i].color = placement.color
    IN  /\ placement.pc \in TierPcs => \A confirmed \in OverlaidGrids : shown(confirmed)
        /\ placement.pc = "confirmed" => ~inOverlay
        /\ placement.pc = "rolledBack" =>
               /\ ~inOverlay
               /\ \E i \in 1..Len(toasts) :
                      /\ toasts[i].level = "error"
                      /\ includes(toasts[i].text, placement.error)

\* the calls of one overlay function made by the placement
Calls(fn) == {i \in 1..Len(placement.calls) : placement.calls[i].fn = fn}

\* the message of the Error executePixelPlacement threw last: that of the
\* last failed operation, prefixed when the verified tier fails with
\* fallback disabled
LastRaised ==
    IF ~placement.enableFallback /\ placement.lastFailure.pc \in {"accessList", "pd"}
    THEN "Programmable Data failed: " \o placement.lastFailure.message
    ELSE placement.lastFailure.message

\* C17: in every placement confirm has been called exactly if a tier
\* succeeded (its success toast was shown); rollback has been called with
\* the message of the last error raised exactly if every tier that was
\* tried failed and nothing is awaited any more; confirm and rollback are
\* never both called.
C17_ConfirmXorRollback ==
    LET succeeded == \E i \in 1..Len(placement.tiers) : placement.tiers[i].ok
        tierToast == \E i \in 1..Len(toasts) :
                        toasts[i] \in {successToast(pc) : pc \in TierPcs}
        allFailed == /\ placement.tiers # << >>
                     /\ placement.pc \notin TierPcs
                     /\ \A i \in 1..Len(placement.tiers) : ~placement.tiers[i].ok
    IN  /\ succeeded <=> tierToast
        /\ (Calls("confirm") # {}) <=> succeeded
        /\ \A i \in Calls("confirm") : placement.calls[i].arg = placement.transactionId
        /\ (Calls("rollback") # {}) <=> allFailed
        /\ allFailed => \E i \in Calls("rollback") : placement.calls[i].arg = LastRaised
        /\ Calls("confirm") = {} \/ Calls("rollback") = {}

\* a placement whose verified, legacy and standard tiers all failed and
\* whose rollback got the message of the last error
C17_Witness ==
    /\ placement.pc = "rolledBack"
    /\ Len(placement.tiers) >= 3
    /\ \A i \in 1..Len(placement.tiers) : ~placement.tiers[i].ok
    /\ \E i \in Calls("rollback") : placement.calls[i].arg = placement.lastFailure.message
    /\ Calls("confirm") = {}

\* the toasts of level error shown since the placement started
ErrorToasts == {i \in 1..Len(toasts) : toasts[i].level = "error"}

\* C18: when a placement has failed for good, no overlay holds a pixel at
\* its cell and exactly one error message was shown to the user.
C18_OneErrorMessage ==
    placement.pc = "rolledBack" =>
        /\ \A h \in Hooks :
               ~MapHas(optimisticPixels[h], overlayKey(placement.x, placement.y))
        /\ Cardinality(ErrorToasts) = 1

\* C19: the operation that failed last was not invoked again if the failure
\* was a declined signature, a rate limit or an invalid payload, and was
\* invoked again if it was a network or provider failure with attempts
\* left; in every tier.
C19_RetryByClass ==
    LET f == placement.lastFailure
    IN  /\ f.kind \in {"UserDeclined", "RateLimited", "PayloadInvalid"} => ~f.retried
        /\ f.kind = "NetworkOrProvider" /\ f.try < f.maxRetries => f.retried

\* C20: an operation whose failure createAppError classifies UNKNOWN_ERROR
\* is invoked again after its first failure, and not after a later one.
C20_UnknownRetriedOnce ==
    LET f == placement.lastFailure
    IN  /\ f.kind \in {k.kind : k \in Failures}
        /\ createAppError(f.message, operationName(f.pc)).type = "UNKNOWN_ERROR"
        => (f.retried <=> f.try = 0)

----------------------------------------------------------------------------
\* C21: a placement accepted now through either entry point leaves
\* lastPlacementAt of its sender at the block time, whatever
\* minPlacementInterval is (the storage after the call holds both the pixel
\* record and the time).
C21_PlacementRecordsTime ==
    /\ \A a \in Addr, c \in Coords, color \in Colors, id \in TxIds, value \in Values :
          LET r == TryPlacePixel(a, c, color, id, value, TRUE)
          IN  r.status = "ok" =>
                  /\ getPixelIn(r.st, c[1], c[2])[3] = now
                  /\ r.st.lastPlacementAt[a] = now
    /\ \A a \in Addr, c \in Coords, id \in TxIds, value \in Values, read \in PdReads :
          LET r == TryPlaceVerified(a, c, id, value, read, TRUE)
          IN  r.status = "ok" =>
                  /\ getPixelIn(r.st, c[1], c[2])[3] = now
                  /\ r.st.lastPlacementAt[a] = now

----------------------------------------------------------------------------
\* no step of a page load lowers syncedBlock
SyncedBlockKept == syncedBlock' >= syncedBlock

\* C22: within one page load syncedBlock never decreases, a poll cycle that
\* is about to fetch starts at syncedBlock + 1, and no event is merged by
\* two cycles; the initial sync and the poll timer interleave freely and a
\* read of the block height may fail.
C22_RangesInOrder ==
    /\ [][SyncedBlockKept]_vars
    /\ [](poll.pc = "fetch" =>
              poll.from = (IF syncedBlock = Null THEN 0 ELSE syncedBlock) + 1)
    /\ [](remergedEvents = {})

----------------------------------------------------------------------------
\* the logs of the ledger up to block h
EventsUpTo(h) == SelectSeq(chainLogs, LAMBDA ev : ev.blockNumber <= h)

\* the pixels of a sync from block 0 to block h on a page without snapshot
ColdReplay(h) == mergeSyncedPixels(<< >>, syncedPixels(EventsUpTo(h)))

PixelSet(ps) == {ps[i] : i \in 1..Len(ps)}

\* C23: the snapshot in the store, if any, holds the pixels a replay of
\* every log up to its blockNumber produces.
C23_SnapshotIsReplay ==
    snapshotStore # << >> =>
        PixelSet(snapshotStore[1].pixels) = PixelSet(ColdReplay(snapshotStore[1].blockNumber))

----------------------------------------------------------------------------
\* C24: when addOptimisticPixel has been called for a placement, no network
\* request of that placement (ledger read, gas estimation, upload) was made
\* before the call.
C24_AddBeforeNetwork ==
    Calls("add") # {} => placement.before = << >>

----------------------------------------------------------------------------
\* the tiers the placement has entered, in order: those it left, and the
\* one whose operation is awaited
EnteredTiers ==
    [i \in 1..Len(placement.tiers) |-> placement.tiers[i].tier]
        \o (IF placement.pc \in TierPcs THEN <<TierOf(placement.pc)>> ELSE << >>)

TierRank(t) == CASE t = "verified" -> 1 [] t = "legacy" -> 2 [] OTHER -> 3

\* C25: the tiers a placement enters are in the order verified, legacy,
\* standard, each at most once; the verified tier only with a data
\* reference and the off-chain client connected; a second or later tier
\* only with fallback enabled and after every earlier one failed.
C25_TierOrder ==
    /\ \A i, j \in 1..Len(EnteredTiers) :
           i < j => TierRank(EnteredTiers[i]) < TierRank(EnteredTiers[j])
    /\ (\E i \in 1..Len(EnteredTiers) : EnteredTiers[i] = "verified")
           => placement.hasRef /\ placement.irysConnected
    /\ Len(EnteredTiers) > 1 => placement.enableFallback
    /\ \A i \in 1..Len(placement.tiers) :
           i < Len(EnteredTiers) => ~placement.tiers[i].ok

----------------------------------------------------------------------------
\* the waits of the schedule: 1 s, 2 s, 4 s, 8 s before the re-invocation n
BackoffMs(n) == CASE n = 1 -> 1000 [] n = 2 -> 2000 [] n = 3 -> 4000 [] OTHER -> 8000

\* C26: the operation awaited is invoked, in its withRetry, for at most the
\* maxRetries-th time (placement.try counts the invocations before it), and
\* the n-th re-invocation was preceded by the n-th wait of the schedule.
C26_RetryBudget ==
    placement.pc \in TierPcs =>
        /\ placement.try + 1 <= tierMaxRetries(placement.pc, placement.maxRetries)
        /\ placement.try > 0 => placement.delay = BackoffMs(placement.try)

----------------------------------------------------------------------------
\* the overlay or the pending map of a caller of the hook holds the pixel
\* of this transaction id
Held(h, id) ==
    \/ MapHas(pendingTransactions[h], id)
    \/ \E i \in 1..Len(optimisticPixels[h]) : optimisticPixels[h][i].v.transactionId = id

\* an entry a firing of the cleanup interval removes is older than
\* EXPIRED_TIME
SweepsOnlyExpired ==
    \A h \in Hooks : \A i \in 1..Len(optimisticPixels[h]) :
        (/\ nextCleanup'[h] # nextCleanup[h]
         /\ ~MapHas(optimisticPixels'[h], optimisticPixels[h][i].k))
            => clock - optimisticPixels[h][i].v.timestamp > EXPIRED_TIME

\* C27: a pixel added to the overlay is in the end neither in the overlay
\* nor in the pending map, whether or not it is confirmed or rolled back;
\* and a firing of the cleanup interval removes no entry of age
\* EXPIRED_TIME or less.
C27_ExpirySweep ==
    /\ \A h \in Hooks, id \in ClientTxIds : Held(h, id) ~> ~Held(h, id)
    /\ [][SweepsOnlyExpired]_vars

----------------------------------------------------------------------------
\* the step is an add, by the caller h, at a cell whose key k was in the
\* overlay already
SecondAdd(h, k) ==
    /\ attempts' = attempts + 1
    /\ \E i \in 1..Len(optimisticPixels[h]) :
           /\ optimisticPixels[h][i].k = k
           /\ \A j \in 1..Len(optimisticPixels'[h]) :
                  optimisticPixels'[h][j] # optimisticPixels[h][i]

\* the step is a confirm, by the caller h, of the pending transaction id
ConfirmOf(h, id) ==
    /\ MapHas(pendingTransactions[h], id)
    /\ ~MapHas(pendingTransactions'[h], id)
    /\ toasts' # << >>
    /\ toasts'[1].level = "success"

\* after a second add the cell has one overlay entry, that of the new
\* transaction id
SecondAddReplaces ==
    \A h \in Hooks, c \in OverlayCoords :
        SecondAdd(h, overlayKey(c[1], c[2])) =>
            \E i \in 1..Len(optimisticPixels'[h]) :
                /\ optimisticPixels'[h][i].k = overlayKey(c[1], c[2])
                /\ optimisticPixels'[h][i].v.transactionId = "opt_" \o NumberToString(attempts')
                /\ \A j \in 1..Len(optimisticPixels'[h]) :
                       optimisticPixels'[h][j].k = overlayKey(c[1], c[2]) => j = i

\* a confirm of one transaction id leaves the overlay entry and the
\* pending entry of every other transaction id
ConfirmKeepsOthers ==
    \A h \in Hooks, id \in ClientTxIds, other \in ClientTxIds :
        (other # id /\ ConfirmOf(h, id)) =>
            /\ MapHas(pendingTransactions[h], other) => MapHas(pendingTransactions'[h], other)
            /\ \A i \in 1..Len(optimisticPixels[h]) :
                   optimisticPixels[h][i].v.transactionId = other =>
                       \E j \in 1..Len(optimisticPixels'[h]) :
                           optimisticPixels'[h][j] = optimisticPixels[h][i]

\* every pending transaction is that of an entry of the overlay
PendingHasOverlayEntry ==
    \A h \in Hooks : \A i \in 1..Len(pendingTransactions[h]) :
        \E j \in 1..Len(optimisticPixels[h]) :
            optimisticPixels[h][j].v.transactionId = pendingTransactions[h][i].k

\* C28: a second add at a cell that has an overlay entry leaves exactly one
\* entry for the cell, the second one; a later confirm of the first
\* transaction id removes neither the second entry from the overlay nor the
\* second transaction from the pending map; and no pending transaction
\* outlives its overlay entry.
C28_ReplaceAndConfirm ==
    /\ [][SecondAddReplaces]_vars
    /\ [][ConfirmKeepsOthers]_vars
    /\ []PendingHasOverlayEntry

----------------------------------------------------------------------------
\* C29: the placements accepted by the contract, and the payments it holds
\* for them, are at most one per call of placePixelWithRecovery, whatever
\* minPlacementInterval is and whatever became of the wait for a receipt.
C29_OnePaymentPerAttempt ==
    /\ totalPixelsPlaced <= attempts
    /\ balance <= attempts * pixelPrice

----------------------------------------------------------------------------
\* the place of an awaited operation in the order executePixelPlacement
\* goes through them; a finished placement comes last
OperationRank(pc) ==
    CASE pc = "accessList" -> 1
      [] pc = "pd" -> 2
      [] pc = "legacy" -> 3
      [] pc = "simpleInner" -> 4
      [] pc = "simple" -> 5
      [] OTHER -> 6

\* an answer either leads to one more invocation of the same operation,
\* within maxRetries re-invocations, or to an operation later in the order,
\* or ends the placement
InvocationsBounded ==
    (placement.pc \in TierPcs /\ placement' # placement) =>
        \/ /\ placement'.pc = placement.pc
           /\ placement'.try = placement.try + 1
           /\ placement'.try <= (IF placement.pc = "accessList"
                                 THEN ACCESS_LIST_MAX_RETRIES ELSE placement.maxRetries)
        \/ /\ OperationRank(placement'.pc) > OperationRank(placement.pc)
           /\ placement'.try = 0

\* C30: a placement in progress ends, confirmed (placePixelWithRecovery
\* returned) or rolled back (it rethrew the error), given that every
\* awaited operation and delay answers; and it invokes each of the five
\* operations at most 1 + maxRetries times, in their order.
C30_PlacementTerminates ==
    /\ (placement.pc \in TierPcs) ~> (placement.pc \in {"confirmed", "rolledBack"})
    /\ [][InvocationsBounded]_vars

\* a placement that went through every tier with every retry has ended
C30_Witness ==
    /\ placement.pc = "rolledBack"
    /\ Len(placement.tiers) >= 3
    /\ placement.lastFailure.pc = "simple"
    /\ placement.lastFailure.try = placement.maxRetries

====
